---- MODULE Spec2Model ----
(***************************************************************************)
(* Model of the link-preview server (src/server.js): the token data cache, *)
(* the pair selector, the OG image composer with its icon overlay, the     *)
(* on-disk image cache and the four request handlers.                      *)
(*                                                                         *)
(* Every action is one run of handler code between two suspension points   *)
(* (an `await` on network or on the rasterizer): Node runs such a stretch  *)
(* to completion, so nothing of another request interleaves inside it.     *)
(***************************************************************************)
EXTENDS Integers, Sequences, FiniteSets, TLC

(***************************************************************************)
(* Program constants                                                       *)
(***************************************************************************)
TOKEN_TTL == 5 * 60 * 1000
OG_TTL == 5 * 60 * 1000
FETCH_TIMEOUT == 10000
ICON_TIMEOUT == 5000
\* node-fetch's default when no `timeout` option is passed: 0 disables it
NO_TIMEOUT == 0
MIN_CA_LEN == 10
\* the image route takes a shorter address for malformed: ca.length < 10
OG_MIN_CA_LEN == 10
SAFE_NAME_MAX == 60

(***************************************************************************)
(* Bounds of the model                                                     *)
(***************************************************************************)
\* the clock runs up to MaxPeriods * TTL
MaxPeriods == 1
\* pairs per document in the pair selector's specification
MaxPairs == 3
\* calls of bestPair on one document in the pair selector's specification
MaxCalls == 2
\* addresses of every length up to this one are given to safeName
MaxNameLen == 2
\* prices with up to this many zeros after the point are given to fmtPrice
MaxZeros == 12

(***************************************************************************)
(* Addresses: sequences of characters                                      *)
(***************************************************************************)
LowerLetters == <<"a", "b", "c", "d", "e", "f", "g", "h", "i", "j", "k", "l", "m",
                 "n", "o", "p", "q", "r", "s", "t", "u", "v", "w", "x", "y", "z">>
UpperLetters == <<"A", "B", "C", "D", "E", "F", "G", "H", "I", "J", "K", "L", "M",
                 "N", "O", "P", "Q", "R", "S", "T", "U", "V", "W", "X", "Y", "Z">>
DigitChars == <<"0", "1", "2", "3", "4", "5", "6", "7", "8", "9">>
Range(f) == {f[i] : i \in DOMAIN f}

\* \w of a regular expression: [A-Za-z0-9_]
WordChars == Range(LowerLetters) \cup Range(UpperLetters) \cup Range(DigitChars) \cup {"_"}

\* the characters safeName keeps: [a-zA-Z0-9_-]
SafeChars == WordChars \cup {"-"}

LowerChar(c) ==
  IF c \in Range(UpperLetters)
    THEN LowerLetters[CHOOSE i \in DOMAIN UpperLetters : UpperLetters[i] = c]
    ELSE c

UpperChar(c) ==
  IF c \in Range(LowerLetters)
    THEN UpperLetters[CHOOSE i \in DOMAIN LowerLetters : LowerLetters[i] = c]
    ELSE c

\* a key that keeps the case of the address
KeepCase(s) == s

\* String.prototype.toLowerCase
toLowerCase(s) == [i \in DOMAIN s |-> LowerChar(s[i])]

\* String.prototype.toUpperCase
toUpperCase(s) == [i \in DOMAIN s |-> UpperChar(s[i])]

Min(a, b) == IF a < b THEN a ELSE b

\* a file name that is sanitized but not cut
safeNameUncut(ca) == [i \in 1..Len(ca) |-> IF ca[i] \in SafeChars THEN ca[i] ELSE "_"]

\* ca.replace(/[^a-zA-Z0-9_-]/g, '_').slice(0, 60)
safeName(ca) ==
  [i \in 1..Min(Len(ca), SAFE_NAME_MAX) |->
     IF ca[i] \in SafeChars THEN ca[i] ELSE "_"]

AddrUpper == <<"0", "x", "A", "B", "C", "D", "E", "F", "1", "2", "3">>
AddrLower == <<"0", "x", "a", "b", "c", "d", "e", "f", "1", "2", "3">>
\* too short to be taken for an address by the page renderer
AddrShort == <<"a", "b", "o", "u", "t">>
NoAddr == <<>>

(***************************************************************************)
(* Text: sequences of characters.  The characters outside ASCII that the   *)
(* code writes are named: "EMDASH" is the dash of the title, "BULLET" the  *)
(* bullet of the description                                               *)
(***************************************************************************)
\* the concatenation of a sequence of texts
RECURSIVE Concat(_)
Concat(ss) == IF Len(ss) = 0 THEN <<>> ELSE Head(ss) \o Concat(Tail(ss))

\* s.replace(/c/g, r) for a single character c
ReplaceChar(s, c, r) ==
  Concat([i \in 1..Len(s) |-> IF s[i] = c THEN r ELSE <<s[i]>>])

\* String(s).replace(/&/g,'&amp;').replace(/"/g,'&quot;')
\*          .replace(/</g,'&lt;').replace(/>/g,'&gt;')
escHtml(s) ==
  ReplaceChar(ReplaceChar(ReplaceChar(ReplaceChar(s,
    "&", <<"&", "a", "m", "p", ";">>), "\"", <<"&", "q", "u", "o", "t", ";">>), "<", <<"&", "l", "t", ";">>), ">", <<"&", "g", "t", ";">>)

\* String(s).replace(/&/g,'&amp;').replace(/</g,'&lt;').replace(/>/g,'&gt;')
\*          .replace(/"/g,'&quot;').replace(/'/g,'&apos;')
escXml(s) ==
  ReplaceChar(ReplaceChar(ReplaceChar(ReplaceChar(ReplaceChar(s,
    "&", <<"&", "a", "m", "p", ";">>), "<", <<"&", "l", "t", ";">>), ">", <<"&", "g", "t", ";">>), "\"", <<"&", "q", "u", "o", "t", ";">>), "'", <<"&", "a", "p", "o", "s", ";">>)

\* s has the text k at position i
Matches(s, i, k) ==
  /\ i + Len(k) - 1 <= Len(s)
  /\ \A m \in 1..Len(k) : s[i + m - 1] = k[m]

\* s.split(k).join(v) from position i on: every occurrence of k, taken from
\* the left and not overlapping, is replaced by v
RECURSIVE SplitJoinFrom(_, _, _, _)
SplitJoinFrom(s, i, k, v) ==
  LET hits == {j \in i..(Len(s) - Len(k) + 1) : Matches(s, j, k)}
  IN  IF hits = {} THEN SubSeq(s, i, Len(s))
      ELSE LET j == CHOOSE h \in hits : \A g \in hits : h <= g
           IN  SubSeq(s, i, j - 1) \o v \o SplitJoinFrom(s, j + Len(k), k, v)

SplitJoin(s, k, v) == SplitJoinFrom(s, 1, k, v)

\* String.prototype.trim, for the blank
RECURSIVE TrimStart(_)
TrimStart(s) == IF Len(s) > 0 /\ Head(s) = " " THEN TrimStart(Tail(s)) ELSE s
RECURSIVE TrimEnd(_)
TrimEnd(s) ==
  IF Len(s) > 0 /\ s[Len(s)] = " " THEN TrimEnd(SubSeq(s, 1, Len(s) - 1)) ELSE s
Trim(s) == TrimEnd(TrimStart(s))

\* encodeURIComponent: letters, digits and - _ . ! ~ * ' ( ) are kept, every
\* other character becomes its %XX escape (those of the model's alphabet)
UriEscapes ==
  [c \in {"\"", "<", ">", "&", "%", "/", "?", "=", ":", " ", "$"} |->
     CASE c = "\"" -> <<"%", "2", "2">> [] c = "<" -> <<"%", "3", "C">> [] c = ">" -> <<"%", "3", "E">>
       [] c = "&" -> <<"%", "2", "6">> [] c = "%" -> <<"%", "2", "5">> [] c = "/" -> <<"%", "2", "F">>
       [] c = "?" -> <<"%", "3", "F">> [] c = "=" -> <<"%", "3", "D">> [] c = ":" -> <<"%", "3", "A">>
       [] c = " " -> <<"%", "2", "0">> [] c = "$" -> <<"%", "2", "4">>]
encodeURIComponent(s) ==
  Concat([i \in 1..Len(s) |->
            IF s[i] \in DOMAIN UriEscapes THEN UriEscapes[s[i]] ELSE <<s[i]>>])

\* the decimal digits of a natural number
RECURSIVE DigitsOf(_)
DigitsOf(n) ==
  IF n < 10 THEN <<DigitChars[n + 1]>>
  ELSE DigitsOf(n \div 10) \o <<DigitChars[(n % 10) + 1]>>

RECURSIVE Pow10(_)
Pow10(d) == IF d = 0 THEN 1 ELSE 10 * Pow10(d - 1)

\* (num / den).toFixed(d) for naturals, den a power of ten that is at least
\* 10^d (written without a product, to stay within 32 bits). The decimal value
\* is rounded to d decimals, a tie upwards; toFixed rounds the double nearest to
\* the quotient, which can lie just below a decimal tie.
ToFixed(num, den, d) ==
  LET unit == den \div Pow10(d)
      scaled == (num + (unit \div 2)) \div unit
      frac == DigitsOf(scaled % Pow10(d))
  IN  DigitsOf(scaled \div Pow10(d)) \o
      (IF d = 0 THEN <<>>
       ELSE <<".">> \o [i \in 1..(d - Len(frac)) |-> "0"] \o frac)

\* fmtBig(n) for a natural number n
fmtBig(n) ==
  IF n = 0 THEN <<"$", "0">>
  ELSE IF n >= 1000000000 THEN <<"$">> \o ToFixed(n, 1000000000, 2) \o <<"B">>
  ELSE IF n >= 1000000 THEN <<"$">> \o ToFixed(n, 1000000, 2) \o <<"M">>
  ELSE IF n >= 1000 THEN <<"$">> \o ToFixed(n, 1000, 1) \o <<"K">>
  ELSE <<"$">> \o ToFixed(n, 1, 0)

(***************************************************************************)
(* Prices                                                                  *)
(***************************************************************************)
\* The argument of fmtPrice: a number, a numeric string ("0.0012"), or a string
\* that is empty or not a number ("text"). The value is int + 0.frac, frac being
\* the decimals as a sequence of digits 0..9.
Price(kind, int, frac) == [kind |-> kind, int |-> int, frac |-> frac]
Num(int, frac) == Price("number", int, frac)
Str(int, frac) == Price("string", int, frac)
NotANumber == Price("text", 0, <<>>)
IsZero(p) == p.int = 0 /\ \A i \in 1..Len(p.frac) : p.frac[i] = 0

\* a digit sequence read as a number, plus one
RECURSIVE IncDigits(_)
IncDigits(ds) ==
  IF ds = <<>> THEN [carry |-> 1, digits |-> <<>>]
  ELSE LET last == ds[Len(ds)]
           front == SubSeq(ds, 1, Len(ds) - 1)
       IN  IF last < 9 THEN [carry |-> 0, digits |-> front \o <<last + 1>>]
           ELSE LET r == IncDigits(front)
                IN  [carry |-> r.carry, digits |-> r.digits \o <<0>>]

\* p rounded to d decimals: the integer part and the d decimals. The decimal
\* value is rounded, half upwards; toFixed rounds the double nearest to p, which
\* gives the same digits unless p is a decimal tie.
Rounded(p, d) ==
  LET cut == [i \in 1..d |-> IF i <= Len(p.frac) THEN p.frac[i] ELSE 0]
      up == IF Len(p.frac) > d /\ p.frac[d + 1] >= 5
              THEN IncDigits(cut) ELSE [carry |-> 0, digits |-> cut]
  IN  [int |-> p.int + up.carry, frac |-> up.digits]
FracChars(ds) == [i \in 1..Len(ds) |-> DigitChars[ds[i] + 1]]

\* p.toFixed(d), d >= 1
NumToFixed(p, d) ==
  LET r == Rounded(p, d) IN DigitsOf(r.int) \o <<".">> \o FracChars(r.frac)

\* the digits of an integer in groups of three, separated by commas
RECURSIVE Grouped(_)
Grouped(ds) ==
  IF Len(ds) <= 3 THEN ds
  ELSE Grouped(SubSeq(ds, 1, Len(ds) - 3)) \o <<",">> \o SubSeq(ds, Len(ds) - 2, Len(ds))

\* p.toLocaleString('en-US', {minimumFractionDigits:2, maximumFractionDigits:2})
ToLocaleString2(p) ==
  LET r == Rounded(p, 2) IN Grouped(DigitsOf(r.int)) \o <<".">> \o FracChars(r.frac)

\* the zeros at the start of a digit sequence
RECURSIVE LeadingZeros(_)
LeadingZeros(ds) ==
  IF ds = <<>> \/ ds[1] # 0 THEN 0 ELSE 1 + LeadingZeros(Tail(ds))

\* p >= 0.01
AtLeastCent(p) == p.int >= 1 \/ (Len(p.frac) >= 2 /\ LeadingZeros(p.frac) < 2)
    \/ (Len(p.frac) = 1 /\ p.frac[1] # 0)

\* a fmtPrice whose small prices always get 8 decimals
fmtPriceEight(p) ==
  IF p.kind = "text" \/ (p.kind = "number" /\ IsZero(p)) THEN <<"$", "0", ".", "0", "0">>
  ELSE IF p.int >= 1000 THEN <<"$">> \o ToLocaleString2(p)
  ELSE IF p.int >= 1 THEN <<"$">> \o NumToFixed(p, 2)
  ELSE IF AtLeastCent(p) THEN <<"$">> \o NumToFixed(p, 4)
  ELSE <<"$">> \o NumToFixed(p, 8)

\* fmtPrice(p): `!p || isNaN(p)` holds for the number 0, the empty string and
\* a string that is no number, but not for the string "0"; z is counted on the
\* decimals of p.toFixed(15)
fmtPrice(p) ==
  IF p.kind = "text" \/ (p.kind = "number" /\ IsZero(p)) THEN <<"$", "0", ".", "0", "0">>
  ELSE IF p.int >= 1000 THEN <<"$">> \o ToLocaleString2(p)
  ELSE IF p.int >= 1 THEN <<"$">> \o NumToFixed(p, 2)
  ELSE IF AtLeastCent(p) THEN <<"$">> \o NumToFixed(p, 4)
  ELSE LET z == LeadingZeros(Rounded(p, 15).frac)
       IN  <<"$">> \o NumToFixed(p, Min(z + 4, 10))

(***************************************************************************)
(* Market data documents                                                   *)
(***************************************************************************)
\* liquidity is <<>> when pair.liquidity (or its usd) is absent, else <<usd>>
LiqVals == {<<>>, <<0>>, <<7>>}

\* pair.baseToken: name and symbol are <<>> when absent or empty
Token(name, symbol) == [name |-> name, symbol |-> symbol]
PlainToken == Token(<<"T", "o", "k">>, <<"T", "K">>)

\* A pair as upstream delivers it. baseToken is <<>> when the pair has none,
\* else <<token>>; chainId and imageUrl (pair.info.imageUrl) are <<>> when
\* absent; fdv and marketCap are 0 when absent; priceUsd is <<>> when absent,
\* null or empty, else <<price>>; volume is <<>> when pair.volume (or its h24)
\* is absent, else <<h24>>.
Pair(id, liq) ==
  [id |-> id, liquidity |-> liq, baseToken |-> <<PlainToken>>,
   chainId |-> <<"s", "o", "l", "a", "n", "a">>,
   fdv |-> 0, marketCap |-> 0, imageUrl |-> <<>>,
   priceUsd |-> <<>>, volume |-> <<>>]
NoPair == Pair(0, <<>>)

\* (p.liquidity?.usd || 0)
LiqUsd(p) == IF p.liquidity = <<>> THEN 0 ELSE p.liquidity[1]

\* (p.volume?.h24 || 0)
VolH24(p) == IF p.volume = <<>> THEN 0 ELSE p.volume[1]

\* (p.priceUsd || '0'): the string '0' stands in for an absent price and for
\* the number 0
PriceOr0(p) ==
  IF p.priceUsd = <<>> \/ (p.priceUsd[1].kind = "number" /\ IsZero(p.priceUsd[1]))
    THEN Str(0, <<>>) ELSE p.priceUsd[1]

\* a document: hasPairs is FALSE when data.pairs is missing or null
Doc(hasPairs, pairs) == [hasPairs |-> hasPairs, pairs |-> pairs]
NullDoc == Doc(FALSE, <<>>)

\* the pairs in the order upstream delivers them: pair i has id i
PairSeqs(n) == {[i \in 1..n |-> Pair(i, l[i])] : l \in [1..n -> LiqVals]}
Docs == {NullDoc} \cup {Doc(TRUE, ps) : ps \in UNION {PairSeqs(n) : n \in 0..MaxPairs}}

\* a comparator with its operands swapped: the sort becomes ascending
CompareAscending(a, b) == LiqUsd(a) - LiqUsd(b)

\* the comparator of the sort: negative when a goes before b
Compare(a, b) == LiqUsd(b) - LiqUsd(a)

\* Insert p into the sorted run s behind every element that does not compare
\* greater than it: Array.prototype.sort is stable (ES2019; the code uses
\* optional chaining, so it runs on Node >= 14)
RECURSIVE InsertStable(_, _)
InsertStable(p, s) ==
  IF s = <<>> THEN <<p>>
  ELSE IF Compare(Head(s), p) <= 0 THEN <<Head(s)>> \o InsertStable(p, Tail(s))
  ELSE <<p>> \o s

RECURSIVE SortFrom(_, _)
SortFrom(done, rest) ==
  IF rest = <<>> THEN done
  ELSE SortFrom(InsertStable(Head(rest), done), Tail(rest))

\* data.pairs.sort((a, b) => (b.liquidity?.usd || 0) - (a.liquidity?.usd || 0))
SortPairs(pairs) == SortFrom(<<>>, pairs)

\* !data?.pairs?.length
HasNoPairs(data) == ~data.hasPairs \/ Len(data.pairs) = 0

\* what bestPair leaves in data: sort() sorts the array in place
bestPairData(data) ==
  IF HasNoPairs(data) THEN data ELSE Doc(TRUE, SortPairs(data.pairs))

\* what bestPair returns
bestPair(data) ==
  IF HasNoPairs(data) THEN NoPair ELSE SortPairs(data.pairs)[1]


(***************************************************************************)
(* Preview images                                                          *)
(***************************************************************************)
\* the two Math.random() draws of one composition, in hundredths
RandDraws == {<<0, 0>>, <<99, 99>>}

\* Math.floor(800 + Math.random() * 2500)
VoteCount(k1) == 800 + ((k1 * 2500) \div 100)

\* a total drawn for a share of 40% to 102%
VoteTotalWide(count, k2) ==
  LET den == 4000 + 62 * k2
      num == count * 10000
  IN  IF num % den = 0 THEN num \div den ELSE (num \div den) + 1

\* Math.ceil(voteCount / (0.4 + Math.random() * 0.52))
VoteTotal(count, k2) ==
  LET den == 4000 + 52 * k2
      num == count * 10000
  IN  IF num % den = 0 THEN num \div den ELSE (num \div den) + 1

\* Math.round((voteCount / voteTotal) * 100)
VotePct(count, total) == (200 * count + total) \div (2 * total)

\* Math.min(380, 380 * votePct / 100), in hundredths of a pixel
BarWidth(pct) == Min(380 * 100, 380 * pct)

\* the vote panel generateOgImage draws for the two random draws k
VotePanel(k) ==
  LET count == VoteCount(k[1])
      total == VoteTotal(count, k[2])
  IN  [voteCount |-> count, voteTotal |-> total,
       votePct |-> VotePct(count, total),
       barWidth |-> BarWidth(VotePct(count, total))]

Img(fmt, ca, pair, count, total, icon) ==
  [fmt |-> fmt, ca |-> ca, pair |-> pair, voteCount |-> count,
   voteTotal |-> total, icon |-> icon]
NoImg == Img("none", NoAddr, NoPair, 0, 0, FALSE)

\* the SVG scene generateOgImage builds for a pair
Scene(ca, pair, k) ==
  Img("svg", ca, pair, VoteCount(k[1]), VoteTotal(VoteCount(k[1]), k[2]), FALSE)

\* sharp(Buffer.from(svg)).png().toBuffer()
Rasterize(svg) == [svg EXCEPT !.fmt = "png"]

\* sharp(pngBuffer).composite([{ input: circularIcon, left: 90, top: 190 }])
Overlay(png) == [png EXCEPT !.icon = TRUE]

(***************************************************************************)
(* State                                                                   *)
(***************************************************************************)
VARIABLES
  now,         \* Date.now()
  sharp,       \* whether require('sharp') succeeded at start-up
  upstream,    \* the document the market-data API currently answers, per address
  tokenCache,  \* key -> the entry { data, ts }
  ogCache,     \* file name -> [img, mtimeMs]
  req,         \* the requests being handled, at their suspension points
  resp,        \* the response the last step sent, with the handler's final state
  bpOrig,      \* pair selector alone: the document as fetched
  bpData,      \* pair selector alone: the document as it is now
  bpRet,       \* pair selector alone: what the last call returned
  bpCalls,     \* pair selector alone: calls made on the document
  call         \* a helper called alone: its name, argument and return value

vars == <<now, sharp, upstream, tokenCache, ogCache, req, resp,
          bpOrig, bpData, bpRet, bpCalls, call>>
bpVars == <<bpOrig, bpData, bpRet, bpCalls, call>>

\* request slots: one request at a time, and two concurrent ones
OneReq == {"r1"}
Reqs == {"r1", "r2"}

\* the addresses requested: two spellings of one key
SameKeyAddrs == {AddrUpper, AddrLower}
OgAddrs == {AddrUpper}

\* the documents upstream answers with in the server's specifications
UpPool ==
  { Doc(TRUE, <<>>),
    Doc(TRUE, <<Pair(1, <<>>), Pair(2, <<7>>)>>) }

\* the instants of the clock: just before and at each multiple of the TTL
ClockVals ==
  {0} \cup UNION {{k * TOKEN_TTL - 1, k * TOKEN_TTL} : k \in 1..MaxPeriods}

\* A cache entry. `data` is the parsed document object the entry refers to, as it
\* is now. A handler runs from the return of fetchTokenData to its response without
\* suspending, so the object a handler works on is the one its key's entry holds.
\* `fetched`, `url` and `prev` record the write: what upstream delivered, the
\* address in the request URL, and what the entry that the write replaced had
\* been fetched as (<<>> when the key had no entry); `at` is the clock value
\* when upstream delivered the document, noted where the age of the data is
\* followed (TokenDelivered) and 0 elsewhere.
Entry(doc, url, t, old, at) ==
  [present |-> TRUE, data |-> doc, fetched |-> doc, url |-> url,
   ts |-> t, prev |-> IF old.present THEN <<old.fetched>> ELSE <<>>, at |-> at]
NoEntry ==
  [present |-> FALSE, data |-> NullDoc, fetched |-> NullDoc, url |-> NoAddr,
   ts |-> 0, prev |-> <<>>, at |-> 0]
\* an image file; dataAt is the clock value when upstream delivered the market
\* data the image shows
NoFile == [img |-> NoImg, mtimeMs |-> 0, dataAt |-> 0]

Body(kind, pairs, pair, img) ==
  [kind |-> kind, pairs |-> pairs, pair |-> pair, img |-> img]
NoBody == Body("none", <<>>, NoPair, NoImg)

\* The request of GET *: req.path; req.query.ca and req.query.token, each <<>>
\* when the parameter is absent and <<value>> when it is given; the rest of the
\* query string; the Host header.
Rq(path, ca, token, tail, host) ==
  [path |-> path, ca |-> ca, token |-> token, tail |-> tail, host |-> host]
HostName == <<"h", ".", "i", "o">>
NoRq == Rq(<<"/">>, <<>>, <<>>, <<>>, HostName)
\* GET /?ca=<a>, or GET / for no address
QueryRq(a) == Rq(<<"/">>, IF a = NoAddr THEN <<>> ELSE <<a>>, <<>>, <<>>, HostName)

Idle ==
  [route |-> "none", pc |-> "idle", ca |-> NoAddr, rq |-> NoRq,
   now |-> 0, timeout |-> 0,
   hit |-> FALSE, upCalls |-> 0, iconCalls |-> 0,
   img |-> NoImg, err |-> "none", iconErr |-> "none", status |-> 0,
   body |-> NoBody, sent |-> 0, dataAt |-> 0]

\* a handler starts on an inbound request
Begin(route, ca) == [Idle EXCEPT !.route = route, !.ca = ca]

\* res.status(code) and the body sent: the handler is over; `sent` counts the
\* responses the handler has sent for the request
Respond(q, code, body) ==
  [q EXCEPT !.pc = "done", !.status = code, !.body = body, !.timeout = 0,
            !.now = 0, !.img = NoImg, !.sent = @ + 1]

\* slot r goes on as q: suspended again, or answered and free for the next request
Settle(r, q) ==
  IF q.pc = "done"
    THEN /\ req' = [req EXCEPT ![r] = Idle]
         /\ resp' = q
    ELSE /\ req' = [req EXCEPT ![r] = q]
         /\ resp' = Idle

(***************************************************************************)
(* fetchTokenData                                                          *)
(***************************************************************************)
\* an expiry that comes one millisecond early
IsFreshShort(hit, t) == hit.present /\ t - hit.ts < TOKEN_TTL - 1

\* an expiry that still serves an entry of age exactly TTL
IsFreshInclusive(hit, t) == hit.present /\ t - hit.ts <= TOKEN_TTL

\* hit && now - hit.ts < TOKEN_TTL
IsFresh(hit, t) == hit.present /\ t - hit.ts < TOKEN_TTL

\* a write that does not replace an entry written by a call that started later
CacheSetIfNewer(cache, key, entry) ==
  IF cache[key].present /\ cache[key].ts >= entry.ts
    THEN cache ELSE [cache EXCEPT ![key] = entry]

\* a write that refreshes the timestamp of an entry but keeps its document
CacheSetKeepData(cache, key, entry) ==
  IF cache[key].present
    THEN [cache EXCEPT ![key].ts = entry.ts]
    ELSE [cache EXCEPT ![key] = entry]

\* a write that drops an expired entry instead of replacing it
CacheSetEvicting(cache, key, entry) ==
  IF cache[key].present /\ entry.ts - cache[key].ts >= TOKEN_TTL
    THEN [cache EXCEPT ![key] = NoEntry]
    ELSE [cache EXCEPT ![key] = entry]

\* tokenCache.set(key, { data, ts: now })
CacheSet(cache, key, entry) == [cache EXCEPT ![key] = entry]

\* fetch(url, { timeout: 10000 }): the call is issued and the handler suspends
AwaitToken(q, t) ==
  [q EXCEPT !.pc = "awaitToken", !.now = t, !.timeout = FETCH_TIMEOUT,
            !.upCalls = @ + 1]

\* return hit.data
ReturnHit(q, hit) == [q EXCEPT !.hit = TRUE, !.dataAt = hit.at]

\* how a pending outbound call can fail
FailKinds == {"neterr", "timeout", "non2xx", "badbody"}

\* a timeout needs a timer: node-fetch arms one only for timeout > 0
CanFail(q, kind) == kind = "timeout" => q.timeout > 0

(***************************************************************************)
(* GET *: address resolution, the placeholder values and the substitution  *)
(***************************************************************************)
\* a guard that takes only extensions of 4 or 5 characters for static files
IsStaticPathLongExt(path) ==
  \E n \in 4..5 :
    /\ Len(path) > n
    /\ path[Len(path) - n] = "."
    /\ \A i \in (Len(path) - n + 1)..Len(path) : path[i] \in WordChars

\* /\.\w{2,5}$/.test(req.path): the path ends in a dot and 2 to 5 word characters
IsStaticPath(path) ==
  \E n \in 2..5 :
    /\ Len(path) > n
    /\ path[Len(path) - n] = "."
    /\ \A i \in (Len(path) - n + 1)..Len(path) : path[i] \in WordChars

\* req.query.ca || req.query.token || null: an absent or empty parameter is falsy
QueryCa(rq) ==
  IF rq.ca # <<>> /\ rq.ca[1] # <<>> THEN rq.ca[1]
  ELSE IF rq.token # <<>> /\ rq.token[1] # <<>> THEN rq.token[1]
  ELSE NoAddr

\* req.path.substring(1).replace(/\/$/, ''): the path without its leading slash
\* and without one trailing slash
PathSeg(path) ==
  LET rest == SubSeq(path, 2, Len(path))
  IN  IF rest # <<>> /\ rest[Len(rest)] = "/"
        THEN SubSeq(rest, 1, Len(rest) - 1) ELSE rest

\* the last non-empty segment of the path
LastSegment(path) ==
  LET ends == {j \in 1..Len(path) : path[j] # "/"}
  IN  IF ends = {} THEN <<>>
      ELSE LET j == CHOOSE e \in ends : \A o \in ends : o <= e
               i == CHOOSE b \in 1..j :
                      /\ \A k \in b..j : path[k] # "/"
                      /\ b = 1 \/ path[b - 1] = "/"
           IN  SubSeq(path, i, j)

\* a resolution that takes the last non-empty segment of a path of any depth
ResolveCaLastSegment(rq) ==
  LET seg == LastSegment(rq.path)
  IN  IF QueryCa(rq) # NoAddr THEN QueryCa(rq)
      ELSE IF Len(seg) > MIN_CA_LEN THEN Trim(seg)
      ELSE NoAddr

\* the address of the request: the query, else the path when it is one segment
\* of more than 10 characters
ResolveCa(rq) ==
  LET seg == PathSeg(rq.path)
  IN  IF QueryCa(rq) # NoAddr THEN QueryCa(rq)
      ELSE IF seg # <<>> /\ Len(seg) > MIN_CA_LEN /\ "/" \notin Range(seg)
        THEN Trim(seg)
      ELSE NoAddr

\* req.originalUrl: the path and the query string as they were sent
QueryString(rq) ==
  (IF rq.ca = <<>> THEN <<>> ELSE <<"&", "c", "a", "=">> \o rq.ca[1])
  \o (IF rq.token = <<>> THEN <<>> ELSE <<"&", "t", "o", "k", "e", "n", "=">> \o rq.token[1])
  \o (IF rq.tail = <<>> THEN <<>> ELSE <<"&">> \o rq.tail)
OriginalUrl(rq) ==
  IF QueryString(rq) = <<>> THEN rq.path
  ELSE rq.path \o <<"?">> \o SubSeq(QueryString(rq), 2, Len(QueryString(rq)))

\* `${req.protocol}://${req.get('host')}`
Origin(rq) == <<"h", "t", "t", "p", ":", "/", "/">> \o rq.host

\* the placeholders, in the order of the keys of META_DEFAULTS
MetaKeys ==
  << <<"%", "%", "P", "A", "G", "E", "_", "T", "I", "T", "L", "E", "%", "%">>,
     <<"%", "%", "O", "G", "_", "T", "I", "T", "L", "E", "%", "%">>,
     <<"%", "%", "O", "G", "_", "D", "E", "S", "C", "%", "%">>,
     <<"%", "%", "O", "G", "_", "I", "M", "A", "G", "E", "%", "%">>,
     <<"%", "%", "O", "G", "_", "U", "R", "L", "%", "%">>,
     <<"%", "%", "F", "A", "V", "I", "C", "O", "N", "%", "%">> >>
PAGE_TITLE == 1
OG_TITLE == 2
OG_DESC == 3
OG_IMAGE == 4
OG_URL == 5
FAVICON == 6

META_DEFAULTS ==
  << <<"D", "e", "x", "S", "c", "r", "e", "e", "n", "e", "r", " ", "V", "o",
       "t", "e", "s", " ", "BULLET", " ", "E", "l", "i", "t", "e", " ", "T",
       "e", "r", "m", "i", "n", "a", "l">>,
     <<"V", "o", "t", "e", " ", "t", "o", " ", "E", "a", "r", "n", " ",
       "EMDASH", " ", "D", "e", "x", "S", "c", "r", "e", "e", "n", "e", "r",
       " ", "C", "O", "R", "E">>,
     <<"V", "o", "t", "e", " ", "t", "o", " ", "E", "a", "r", "n", " ", "S",
       "O", "L">>,
     <<>>, <<>>, <<>> >>

\* CHAIN_REWARDS[chainId] || chainId.toUpperCase()
CHAIN_REWARDS ==
  [c \in {<<"s", "o", "l", "a", "n", "a">>, <<"e", "t", "h", "e", "r", "e", "u", "m">>} |->
     IF c = <<"s", "o", "l", "a", "n", "a">> THEN <<"S", "O", "L">> ELSE <<"E", "T", "H">>]
ChainSym(chainId) ==
  IF chainId \in DOMAIN CHAIN_REWARDS THEN CHAIN_REWARDS[chainId]
  ELSE toUpperCase(chainId)

\* pair.chainId || 'unknown'
ChainId(pair) == IF pair.chainId = <<>> THEN <<"u", "n", "k", "n", "o", "w", "n">> ELSE pair.chainId
\* token.name || token.symbol || 'Unknown'
TokenName(token) ==
  IF token.name # <<>> THEN token.name
  ELSE IF token.symbol # <<>> THEN token.symbol
  ELSE <<"U", "n", "k", "n", "o", "w", "n">>
\* token.symbol || '???'
TokenSym(token) == IF token.symbol # <<>> THEN token.symbol ELSE <<"?", "?", "?">>
\* pair.fdv || pair.marketCap || 0
McapOf(pair) == IF pair.fdv # 0 THEN pair.fdv ELSE pair.marketCap

\* `${name} ($${sym}) — Vote to Earn ${chainSym}`
PageTitle(pair) ==
  TokenName(pair.baseToken[1]) \o <<" ", "(", "$">> \o TokenSym(pair.baseToken[1])
    \o <<")", " ", "EMDASH", " ", "V", "o", "t", "e", " ", "t", "o", " ", "E", "a", "r", "n", " ">> \o ChainSym(ChainId(pair))
\* `${name} ($${sym}) on ${chainId.toUpperCase()} • MCap ${mcap} • Vote to Earn ${chainSym}`
PageDesc(pair) ==
  TokenName(pair.baseToken[1]) \o <<" ", "(", "$">> \o TokenSym(pair.baseToken[1])
    \o <<")", " ", "o", "n", " ">> \o toUpperCase(ChainId(pair))
    \o <<" ", "BULLET", " ", "M", "C", "a", "p", " ">> \o fmtBig(McapOf(pair))
    \o <<" ", "BULLET", " ", "V", "o", "t", "e", " ", "t", "o", " ", "E", "a", "r", "n", " ">> \o ChainSym(ChainId(pair))
\* `${origin}/og/${encodeURIComponent(ca)}.png`
OgImageUrl(rq, ca) == Origin(rq) \o <<"/", "o", "g", "/">> \o encodeURIComponent(ca) \o <<".", "p", "n", "g">>
\* pair.info.imageUrl, else the token image of the data host
FaviconUrl(pair, ca) ==
  IF pair.imageUrl # <<>> THEN pair.imageUrl
  ELSE <<"h", "t", "t", "p", "s", ":", "/", "/", "d", "d", ".", "d", "e",
         "x", "s", "c", "r", "e", "e", "n", "e", "r", ".", "c", "o", "m",
         "/", "d", "s", "-", "d", "a", "t", "a", "/", "t", "o", "k", "e",
         "n", "s", "/">>
         \o ChainId(pair) \o <<"/">> \o ca \o <<".", "p", "n", "g">>

\* reps when the handler reaches the substitution loop: the defaults and the page
\* URL; with a pair, the five values computed from it. A pair without baseToken
\* makes `token.name` throw before any value is assigned: the catch block logs
\* and the defaults stay.
PageReps(rq, ca, pair) ==
  LET base == [META_DEFAULTS EXCEPT ![OG_URL] = Origin(rq) \o OriginalUrl(rq)]
  IN  IF pair = NoPair \/ pair.baseToken = <<>> THEN base
      ELSE [base EXCEPT ![PAGE_TITLE] = escHtml(PageTitle(pair)),
                        ![OG_TITLE] = escHtml(PageTitle(pair)),
                        ![OG_DESC] = escHtml(PageDesc(pair)),
                        ![OG_IMAGE] = OgImageUrl(rq, ca),
                        ![FAVICON] = FaviconUrl(pair, ca)]

\* public/index.html: a page that holds every placeholder, the title twice
HTML_TEMPLATE ==
  <<"<", "t", "i", "t", "l", "e", ">", "%", "%", "P", "A", "G", "E", "_",
    "T", "I", "T", "L", "E", "%", "%", "<", "/", "t", "i", "t", "l", "e",
    ">", "<", "m", "e", "t", "a", " ", "a", "=", "\"", "%", "%", "O", "G",
    "_", "T", "I", "T", "L", "E", "%", "%", "\"", ">", "<", "m", "e", "t",
    "a", " ", "b", "=", "\"", "%", "%", "O", "G", "_", "D", "E", "S", "C",
    "%", "%", "\"", ">", "<", "m", "e", "t", "a", " ", "c", "=", "\"", "%",
    "%", "O", "G", "_", "I", "M", "A", "G", "E", "%", "%", "\"", ">", "<",
    "m", "e", "t", "a", " ", "d", "=", "\"", "%", "%", "O", "G", "_", "U",
    "R", "L", "%", "%", "\"", ">", "<", "l", "i", "n", "k", " ", "e", "=",
    "\"", "%", "%", "F", "A", "V", "I", "C", "O", "N", "%", "%", "\"", ">",
    "<", "h", "1", ">", "%", "%", "P", "A", "G", "E", "_", "T", "I", "T",
    "L", "E", "%", "%", "<", "/", "h", "1", ">">>

\* for (const [k, v] of Object.entries(reps)) html = html.split(k).join(v)
RECURSIVE RenderFrom(_, _, _)
RenderFrom(html, reps, i) ==
  IF i > Len(MetaKeys) THEN html
  ELSE RenderFrom(SplitJoin(html, MetaKeys[i], reps[i]), reps, i + 1)
Render(template, reps) == RenderFrom(template, reps, 1)

(***************************************************************************)
(* generateOgImage: the texts of the scene that come from the pair         *)
(***************************************************************************)
\* a name cut to 16 characters and an ellipsis when longer than 18
OgNameShort(token) ==
  IF Len(TokenName(token)) > 18
    THEN SubSeq(TokenName(token), 1, 16) \o <<"ELLIPSIS">>
    ELSE TokenName(token)

\* name, cut to 18 characters and an ellipsis when longer than 20
OgName(token) ==
  IF Len(TokenName(token)) > 20
    THEN SubSeq(TokenName(token), 1, 18) \o <<"ELLIPSIS">>
    ELSE TokenName(token)
\* the symbol in upper case, cut to 8 characters and an ellipsis when longer
\* than 10
OgSym(token) ==
  IF Len(toUpperCase(TokenSym(token))) > 10
    THEN SubSeq(toUpperCase(TokenSym(token)), 1, 8) \o <<"ELLIPSIS">>
    ELSE toUpperCase(TokenSym(token))

\* the <text> contents built from values of the pair, each through escXml, in
\* the order of the scene: the chain badge, the initial, the name, the symbol,
\* the price, the market cap, the liquidity, the volume, the reward line and
\* the chart label
SceneTexts(pair) ==
  LET token == pair.baseToken[1]
  IN  << escXml(toUpperCase(ChainId(pair))),
         escXml(SubSeq(OgSym(token), 1, 1)),
         escXml(OgName(token)),
         escXml(OgSym(token)),
         escXml(fmtPrice(PriceOr0(pair))),
         escXml(fmtBig(McapOf(pair))),
         escXml(fmtBig(LiqUsd(pair))),
         escXml(fmtBig(VolH24(pair))),
         escXml(ChainSym(ChainId(pair))),
         escXml(OgSym(token)) >>
OG_NAME_TEXT == 3
OG_SYM_TEXT == 4
OG_PRICE_TEXT == 5
OG_MCAP_TEXT == 6
OG_LIQ_TEXT == 7
OG_VOL_TEXT == 8

(***************************************************************************)
(* What each handler does once fetchTokenData has returned `data`          *)
(***************************************************************************)
\* GET /api/token/:address: res.json(data)
ApiRespond(q, data) == Respond(q, 200, Body("json", data.pairs, NoPair, NoImg))

\* GET *: the page with the pair's meta values, or with the defaults
\* a handler without the try/catch around the computation of the values: a pair
\* without baseToken ends the request with an error
PageRespondUncaught(q, pair) ==
  IF pair # NoPair /\ pair.baseToken = <<>>
    THEN Respond(q, 500, Body("text", <<>>, NoPair, NoImg))
    ELSE Respond(q, 200, Body("html", <<>>, pair, NoImg))

\* (the page is a function of the request, the resolved address and the pair,
\* which the response record holds)
PageRespond(q, pair) == Respond(q, 200, Body("html", <<>>, pair, NoImg))

\* reps at the substitution loop of the page response q, and res.send(html)
RepsSent(q) == PageReps(q.rq, q.ca, q.body.pair)
HtmlSent(q) == Render(HTML_TEMPLATE, RepsSent(q))

\* GET /og/:ca.png after fetchTokenData: 404 without a pair; generateOgImage
\* throws on a pair without baseToken (500); else the scene is built and handed
\* to the rasterizer
OgCompose(q, pair, k) ==
  IF pair = NoPair
    THEN Respond(q, 404, Body("text", <<>>, NoPair, NoImg))
  ELSE IF pair.baseToken = <<>>
    THEN Respond([q EXCEPT !.err = "compose"], 500, Body("text", <<>>, NoPair, NoImg))
    ELSE [q EXCEPT !.pc = "awaitRaster", !.now = 0, !.timeout = 0,
                   !.img = Scene(q.ca, pair, k)]

\* the handler of q's route, from the return of fetchTokenData on
Handle(q, data, k) ==
  CASE q.route = "api"  -> ApiRespond(q, data)
    [] q.route = "page" -> PageRespond(q, bestPair(data))
    [] q.route = "og"   -> OgCompose(q, bestPair(data), k)

\* the document object after the handler of `route` ran on it: the page and the
\* image handlers call bestPair, which sorts data.pairs in place
DataAfter(route, data) ==
  IF route \in {"page", "og"} THEN bestPairData(data) ELSE data

\* fs.writeFileSync(cacheFile, imageBuffer)
WriteFile(files, name, img, t, dataAt) ==
  [files EXCEPT ![name] = [img |-> img, mtimeMs |-> t, dataAt |-> dataAt]]

\* res.send(imageBuffer)
OgRespond(q, img) == Respond(q, 200, Body("png", <<>>, NoPair, img))

\* a failure that falls back to the entry the key still holds, however old
TokenFailureStale(q) ==
  LET hit == tokenCache[toLowerCase(q.ca)]
  IN  IF hit.present THEN Handle(ReturnHit(q, hit), hit.data, <<0, 0>>)
      ELSE Respond(q, 502, Body("error", <<>>, NoPair, NoImg))

\* a failure that reissues the market-data call once
TokenFailureRetry(q) ==
  IF q.upCalls < 2 THEN AwaitToken(q, q.now)
  ELSE Respond(q, 502, Body("error", <<>>, NoPair, NoImg))

\* an image handler whose catch block answers after a response already went out
TokenFailureTwice(q) ==
  CASE q.route = "api"  -> Respond(q, 502, Body("error", <<>>, NoPair, NoImg))
    [] q.route = "og"   ->
         Respond(Respond(q, 404, Body("text", <<>>, NoPair, NoImg)),
                 500, Body("text", <<>>, NoPair, NoImg))
    [] q.route = "page" -> PageRespond(q, NoPair)

\* the catch blocks of the three handlers that call fetchTokenData
TokenFailure(q) ==
  CASE q.route = "api"  -> Respond(q, 502, Body("error", <<>>, NoPair, NoImg))
    [] q.route = "og"   -> Respond(q, 500, Body("text", <<>>, NoPair, NoImg))
    [] q.route = "page" -> PageRespond(q, NoPair)

(***************************************************************************)
(* Actions                                                                 *)
(***************************************************************************)
\* fetchTokenData(a) is called by the handler q: a fresh entry is returned and
\* the handler runs on; else the upstream call is issued
CallFetchTokenData(r, q, k) ==
  LET key == toLowerCase(q.ca)
      hit == tokenCache[key]
  IN  IF IsFresh(hit, now)
        THEN /\ Settle(r, Handle(ReturnHit(q, hit), hit.data, k))
             /\ tokenCache' = [tokenCache EXCEPT ![key].data = DataAfter(q.route, @)]
        ELSE /\ Settle(r, AwaitToken(q, now))
             /\ tokenCache' = tokenCache

\* GET /api/token/:address arrives
StartApi(r, a) ==
  /\ req[r].pc = "idle"
  /\ CallFetchTokenData(r, Begin("api", a), <<0, 0>>)
  /\ UNCHANGED <<now, sharp, upstream, ogCache, bpVars>>

\* a lookup for every address the request names, whatever its length
IsAddressAnyLength(ca) == ca # NoAddr

\* if (ca && ca.length > 10)
IsAddress(ca) == ca # NoAddr /\ Len(ca) > MIN_CA_LEN

\* GET * arrives: 404 for a static-file path; else the address is resolved and,
\* when it is longer than 10 characters, looked up
PageRequest(r, rq) ==
  /\ req[r].pc = "idle"
  /\ LET ca == ResolveCa(rq)
         q == [Begin("page", ca) EXCEPT !.rq = rq]
     IN  IF IsStaticPath(rq.path)
           THEN /\ Settle(r, Respond(q, 404, Body("text", <<>>, NoPair, NoImg)))
                /\ tokenCache' = tokenCache
         ELSE IF IsAddress(ca)
           THEN CallFetchTokenData(r, q, <<0, 0>>)
           ELSE /\ Settle(r, PageRespond(q, NoPair))
                /\ tokenCache' = tokenCache
  /\ UNCHANGED <<now, sharp, upstream, ogCache, bpVars>>

\* GET /?ca=<a> arrives
StartPage(r, a) == PageRequest(r, QueryRq(a))

\* the market-data API answers 2xx with a body that parses: the entry is written
\* and the handler runs on; `at` is what is noted as the time of delivery
TokenDelivered(r, at) ==
  /\ req[r].pc = "awaitToken"
  /\ LET q == [req[r] EXCEPT !.dataAt = at]
         data == upstream[q.ca]
     IN  \E k \in (IF q.route = "og" THEN RandDraws ELSE {<<0, 0>>}) :
           /\ tokenCache' =
                CacheSet(tokenCache, toLowerCase(q.ca),
                         [Entry(data, q.ca, q.now, tokenCache[toLowerCase(q.ca)], at)
                            EXCEPT
                            !.data = DataAfter(q.route, data)])
           /\ Settle(r, Handle(q, data, k))
  /\ UNCHANGED <<now, sharp, upstream, ogCache, bpVars>>

\* the same step where the age of the data is not followed: the time of
\* delivery stays 0 in the entry, the request and the image file
TokenFetched(r) == TokenDelivered(r, 0)

\* the market-data call rejects, times out, answers non-2xx or does not parse
TokenFailed(r, kind) ==
  /\ req[r].pc = "awaitToken"
  /\ CanFail(req[r], kind)
  /\ Settle(r, TokenFailure([req[r] EXCEPT !.err = kind]))
  /\ UNCHANGED <<now, sharp, upstream, tokenCache, ogCache, bpVars>>

\* GET /api/trending arrives: fetch(url) without a timeout option
StartTrending(r) ==
  /\ req[r].pc = "idle"
  /\ Settle(r, [Begin("trending", NoAddr) EXCEPT !.pc = "awaitTrending",
                                                 !.timeout = NO_TIMEOUT])
  /\ UNCHANGED <<now, sharp, upstream, tokenCache, ogCache, bpVars>>

TrendingFetched(r) ==
  /\ req[r].pc = "awaitTrending"
  /\ Settle(r, Respond(req[r], 200, Body("json", <<>>, NoPair, NoImg)))
  /\ UNCHANGED <<now, sharp, upstream, tokenCache, ogCache, bpVars>>

TrendingFailed(r, kind) ==
  /\ req[r].pc = "awaitTrending"
  /\ CanFail(req[r], kind)
  /\ Settle(r, Respond(req[r], 502, Body("error", <<>>, NoPair, NoImg)))
  /\ UNCHANGED <<now, sharp, upstream, tokenCache, ogCache, bpVars>>

(***************************************************************************)
(* GET /og/:ca.png and generateOgImage                                     *)
(***************************************************************************)
\* an image file that expires one millisecond early
IsFreshFileShort(file, t) == file.img # NoImg /\ t - file.mtimeMs < OG_TTL - 1

\* fs.statSync(cacheFile) succeeded and Date.now() - stat.mtimeMs < OG_TTL
IsFreshFile(file, t) == file.img # NoImg /\ t - file.mtimeMs < OG_TTL

\* the stages of the icon sub-pipeline that follow the icon fetch
IconStages == <<"awaitIconBody", "awaitResize", "awaitMask", "awaitComposite">>
StageIndex(pc) == CHOOSE i \in DOMAIN IconStages : IconStages[i] = pc

\* a handler that leaves the file behind when it answers 500
OgStoreThenFail(r, q, img) ==
  \/ /\ ogCache' = WriteFile(ogCache, safeName(q.ca), img, now, q.dataAt)
     /\ Settle(r, OgRespond(q, img))
  \/ /\ ogCache' = WriteFile(ogCache, safeName(q.ca), img, now, q.dataAt)
     /\ Settle(r, Respond([q EXCEPT !.err = "write"], 500,
                          Body("text", <<>>, NoPair, NoImg)))

\* generateOgImage returned `img`: the handler stores and sends it
\* (fs.writeFileSync may throw, the cache directory missing or not writable: the
\* handler's catch answers 500 and nothing is stored)
OgStoreAndSend(r, q, img) ==
  \/ /\ ogCache' = WriteFile(ogCache, safeName(q.ca), img, now, q.dataAt)
     /\ Settle(r, OgRespond(q, img))
  \/ /\ ogCache' = ogCache
     /\ Settle(r, Respond([q EXCEPT !.err = "write"], 500,
                          Body("text", <<>>, NoPair, NoImg)))

\* a fallback that returns the raster with whatever the icon step left on it
IconFallbackOverlaid(png) == [png EXCEPT !.icon = TRUE]

\* return pngBuffer: what generateOgImage returns, given the base raster, when
\* the icon host answered non-2xx or a step of the icon sub-pipeline threw
IconFallback(png) == png

StartOg(r, a) ==
  /\ req[r].pc = "idle"
  /\ LET file == ogCache[safeName(a)]
         q == Begin("og", a)
     IN  IF IsFreshFile(file, now)
           THEN /\ Settle(r, OgRespond([q EXCEPT !.dataAt = file.dataAt], file.img))
                /\ tokenCache' = tokenCache
         ELSE IF ~sharp
           THEN /\ Settle(r, Respond(q, 501, Body("text", <<>>, NoPair, NoImg)))
                /\ tokenCache' = tokenCache
         ELSE \E k \in RandDraws : CallFetchTokenData(r, q, k)
  /\ UNCHANGED <<now, sharp, upstream, ogCache, bpVars>>

\* the rasterizer finished the scene: the icon fetch is issued
RasterDone(r) ==
  /\ req[r].pc = "awaitRaster"
  /\ Settle(r, [req[r] EXCEPT !.pc = "awaitIcon", !.img = Rasterize(@),
                              !.timeout = ICON_TIMEOUT, !.iconCalls = @ + 1])
  /\ UNCHANGED <<now, sharp, upstream, tokenCache, ogCache, bpVars>>

\* the rasterizer threw: the handler's catch answers 500
RasterFailed(r) ==
  /\ req[r].pc = "awaitRaster"
  /\ Settle(r, Respond(req[r], 500, Body("text", <<>>, NoPair, NoImg)))
  /\ UNCHANGED <<now, sharp, upstream, tokenCache, ogCache, bpVars>>

\* the icon host answers 2xx: the body is read next
IconFetched(r) ==
  /\ req[r].pc = "awaitIcon"
  /\ Settle(r, [req[r] EXCEPT !.pc = "awaitIconBody", !.timeout = 0])
  /\ UNCHANGED <<now, sharp, upstream, tokenCache, ogCache, bpVars>>

\* the icon host answers non-2xx: `if (iconRes.ok)` is skipped
IconNotOk(r) ==
  /\ req[r].pc = "awaitIcon"
  /\ OgStoreAndSend(r, [req[r] EXCEPT !.iconErr = "non2xx"],
                    IconFallback(req[r].img))
  /\ UNCHANGED <<now, sharp, upstream, tokenCache, bpVars>>

\* the icon fetch rejects or times out: caught inside generateOgImage
IconFailed(r, kind) ==
  /\ req[r].pc = "awaitIcon"
  /\ kind \in {"neterr", "timeout"}
  /\ CanFail(req[r], kind)
  /\ OgStoreAndSend(r, [req[r] EXCEPT !.iconErr = kind], IconFallback(req[r].img))
  /\ UNCHANGED <<now, sharp, upstream, tokenCache, bpVars>>

\* a stage after the fetch (body, resize, mask, composite) succeeds
IconStageDone(r) ==
  /\ req[r].pc \in {IconStages[i] : i \in DOMAIN IconStages}
  /\ LET i == StageIndex(req[r].pc)
     IN  IF i < Len(IconStages)
           THEN /\ Settle(r, [req[r] EXCEPT !.pc = IconStages[i + 1]])
                /\ ogCache' = ogCache
           ELSE OgStoreAndSend(r, req[r], Overlay(req[r].img))
  /\ UNCHANGED <<now, sharp, upstream, tokenCache, bpVars>>

\* a stage after the fetch throws: caught inside generateOgImage
IconStageFailed(r) ==
  /\ req[r].pc \in {IconStages[i] : i \in DOMAIN IconStages}
  /\ OgStoreAndSend(r, [req[r] EXCEPT !.iconErr = req[r].pc],
                    IconFallback(req[r].img))
  /\ UNCHANGED <<now, sharp, upstream, tokenCache, bpVars>>

(***************************************************************************)
(* Environment                                                             *)
(***************************************************************************)
Tick ==
  /\ \E t \in ClockVals : t > now /\ now' = t
  /\ resp' = Idle
  /\ UNCHANGED <<sharp, upstream, tokenCache, ogCache, req, bpVars>>

\* the market changes: upstream answers address a with another document
UpstreamChange(a, d) ==
  /\ upstream[a] # d
  /\ upstream' = [upstream EXCEPT ![a] = d]
  /\ resp' = Idle
  /\ UNCHANGED <<now, sharp, tokenCache, ogCache, req, bpVars>>

Call(fn, arg, ret) == [fn |-> fn, arg |-> arg, ret |-> ret]
NoCall == Call("none", <<>>, <<>>)

BpIdle ==
  /\ bpOrig = NullDoc /\ bpData = NullDoc /\ bpRet = NoPair /\ bpCalls = 0
  /\ call = NoCall

\* the server after start-up, serving the addresses A and the image files of O
InitServer(A, O) ==
  /\ now = 0
  /\ upstream \in [A -> UpPool]
  /\ tokenCache = [k \in {toLowerCase(a) : a \in A} |-> NoEntry]
  /\ ogCache = [f \in {safeName(a) : a \in O} |-> NoFile]
  /\ req = [r \in Reqs |-> Idle]
  /\ resp = Idle
  /\ BpIdle

(***************************************************************************)
(* The server handling one request at a time, every route                  *)
(***************************************************************************)
Init ==
  /\ sharp \in BOOLEAN
  /\ InitServer(SameKeyAddrs, OgAddrs)

Next ==
  \/ \E r \in OneReq, a \in SameKeyAddrs : StartApi(r, a)
  \/ \E r \in OneReq, a \in SameKeyAddrs \cup {AddrShort, NoAddr} : StartPage(r, a)
  \/ \E r \in OneReq, a \in OgAddrs : StartOg(r, a)
  \/ \E r \in OneReq : StartTrending(r)
  \/ \E r \in OneReq : TokenFetched(r)
  \/ \E r \in OneReq, kind \in FailKinds : TokenFailed(r, kind)
  \/ \E r \in OneReq : TrendingFetched(r)
  \/ \E r \in OneReq, kind \in FailKinds : TrendingFailed(r, kind)
  \/ \E r \in OneReq : RasterDone(r)
  \/ \E r \in OneReq : RasterFailed(r)
  \/ \E r \in OneReq : IconFetched(r)
  \/ \E r \in OneReq : IconNotOk(r)
  \/ \E r \in OneReq, kind \in FailKinds : IconFailed(r, kind)
  \/ \E r \in OneReq : IconStageDone(r)
  \/ \E r \in OneReq : IconStageFailed(r)
  \/ Tick
  \/ \E a \in SameKeyAddrs, d \in UpPool : UpstreamChange(a, d)

Spec == Init /\ [][Next]_vars

\* What the event loop guarantees of a pending request: a network call whose
\* timer is armed ends (with its response, or else by the timer), and sharp's
\* local steps finish.  Nothing makes upstream answer.
Fairness ==
  \A r \in OneReq :
    /\ WF_vars(TokenFailed(r, "timeout"))
    /\ WF_vars(TrendingFailed(r, "timeout"))
    /\ WF_vars(IconFailed(r, "timeout"))
    /\ WF_vars(RasterDone(r) \/ RasterFailed(r))
    /\ WF_vars(IconStageDone(r) \/ IconStageFailed(r))

SpecFair == Spec /\ Fairness

(***************************************************************************)
(* Two concurrent requests on one key of the token data cache: the API     *)
(* proxy is asked with one spelling of the address, the page with the other *)
(***************************************************************************)
InitConc ==
  /\ sharp = TRUE
  /\ InitServer(SameKeyAddrs, {})

NextConc ==
  \/ \E r \in Reqs : StartApi(r, AddrUpper)
  \/ \E r \in Reqs : StartPage(r, AddrLower)
  \/ \E r \in Reqs : TokenFetched(r)
  \/ \E r \in Reqs, kind \in FailKinds : TokenFailed(r, kind)
  \/ Tick
  \/ \E a \in SameKeyAddrs, d \in UpPool : UpstreamChange(a, d)

SpecConc == InitConc /\ [][NextConc]_vars

(***************************************************************************)
(* The image route alone, asked again and again for one address: a         *)
(* well-formed one, or one that is too short to be an address              *)
(***************************************************************************)
OgReqAddrs == {AddrUpper, AddrShort}

InitOg ==
  /\ sharp \in BOOLEAN
  /\ \E a \in OgReqAddrs : InitServer({a}, {a})

NextOg ==
  \/ \E r \in OneReq, a \in DOMAIN upstream : StartOg(r, a)
  \/ \E r \in OneReq : TokenFetched(r)
  \/ \E r \in OneReq, kind \in FailKinds : TokenFailed(r, kind)
  \/ \E r \in OneReq : RasterDone(r)
  \/ \E r \in OneReq : RasterFailed(r)
  \/ \E r \in OneReq : IconFetched(r)
  \/ \E r \in OneReq : IconNotOk(r)
  \/ \E r \in OneReq, kind \in FailKinds : IconFailed(r, kind)
  \/ \E r \in OneReq : IconStageDone(r)
  \/ \E r \in OneReq : IconStageFailed(r)
  \/ Tick
  \/ \E a \in DOMAIN upstream, d \in UpPool : UpstreamChange(a, d)

SpecOg == InitOg /\ [][NextOg]_vars

(***************************************************************************)
(* The image route asked for two coin types of one Sui package: addresses  *)
(* of 72 characters that differ behind the 60th                            *)
(***************************************************************************)
SuiPackage == <<"0", "x">> \o [i \in 1..64 |-> "a"]
SuiCoinA == SuiPackage \o <<":", ":", "a", ":", ":", "A">>
SuiCoinB == SuiPackage \o <<":", ":", "b", ":", ":", "B">>
SuiCoins == {SuiCoinA, SuiCoinB}

InitOgKeys ==
  /\ sharp = TRUE
  /\ InitServer(SuiCoins, SuiCoins)

\* the clock and the market stand still: every file stored stays fresh
NextOgKeys ==
  \/ \E r \in OneReq, a \in DOMAIN upstream : StartOg(r, a)
  \/ \E r \in OneReq : TokenFetched(r)
  \/ \E r \in OneReq, kind \in FailKinds : TokenFailed(r, kind)
  \/ \E r \in OneReq : RasterDone(r)
  \/ \E r \in OneReq : RasterFailed(r)
  \/ \E r \in OneReq : IconFetched(r)
  \/ \E r \in OneReq : IconNotOk(r)
  \/ \E r \in OneReq, kind \in FailKinds : IconFailed(r, kind)
  \/ \E r \in OneReq : IconStageDone(r)
  \/ \E r \in OneReq : IconStageFailed(r)

SpecOgKeys == InitOgKeys /\ [][NextOgKeys]_vars

\* ---------------------------------------------------------------------------
\* The image route watched for two cache lifetimes: the clock also reaches the
\* last millisecond of the TTL window after the last one of ClockVals, so that
\* a file written at the end of one token TTL can be read until it expires.
\* ---------------------------------------------------------------------------
LateClockVals == ClockVals \cup {(MaxPeriods + 1) * TOKEN_TTL - 1}

TickLate ==
  /\ \E t \in LateClockVals : t > now /\ now' = t
  /\ resp' = Idle
  /\ UNCHANGED <<sharp, upstream, tokenCache, ogCache, req, bpVars>>

InitOgLate ==
  /\ sharp = TRUE
  /\ InitServer({AddrUpper}, {AddrUpper})

NextOgLate ==
  \/ \E r \in OneReq, a \in DOMAIN upstream : StartOg(r, a)
  \/ \E r \in OneReq : TokenDelivered(r, now)
  \/ \E r \in OneReq, kind \in FailKinds : TokenFailed(r, kind)
  \/ \E r \in OneReq : RasterDone(r)
  \/ \E r \in OneReq : RasterFailed(r)
  \/ \E r \in OneReq : IconFetched(r)
  \/ \E r \in OneReq : IconNotOk(r)
  \/ \E r \in OneReq, kind \in FailKinds : IconFailed(r, kind)
  \/ \E r \in OneReq : IconStageDone(r)
  \/ \E r \in OneReq : IconStageFailed(r)
  \/ TickLate
  \/ \E a \in DOMAIN upstream, d \in UpPool : UpstreamChange(a, d)

SpecOgLate == InitOgLate /\ [][NextOgLate]_vars

(***************************************************************************)
(* The page renderer alone on one address, with requests that name the     *)
(* address in the query, in the path, or not at all                        *)
(***************************************************************************)
PlainPair == Pair(1, <<7>>)
\* a pair without baseToken
BarePair == [Pair(3, <<7>>) EXCEPT !.baseToken = <<>>]
\* a token without name and symbol on an unnamed chain, with a market cap
AnonPair ==
  [Pair(5, <<7>>) EXCEPT
     !.baseToken = <<Token(<<>>, <<>>)>>, !.chainId = <<>>, !.fdv = 1500000]

PagePool ==
  { Doc(TRUE, <<>>), Doc(TRUE, <<PlainPair>>), Doc(TRUE, <<BarePair>>),
    Doc(TRUE, <<AnonPair>>) }

PathOf(a) == <<"/">> \o a

PageRqs ==
  { QueryRq(AddrUpper),                                       \* /?ca=A
    Rq(<<"/">>, <<>>, <<AddrUpper>>, <<>>, HostName),          \* /?token=A
    Rq(PathOf(AddrUpper), <<>>, <<>>, <<>>, HostName),         \* /A
    Rq(PathOf(AddrUpper) \o <<"/">>, <<>>, <<>>, <<>>, HostName),  \* /A/
    Rq(<<"/", "v">> \o PathOf(AddrUpper), <<>>, <<>>, <<>>, HostName), \* /v/A
    Rq(PathOf(AddrUpper), <<NoAddr>>, <<>>, <<>>, HostName),   \* /A?ca=
    Rq(PathOf(AddrUpper), <<AddrShort>>, <<>>, <<>>, HostName), \* /A?ca=about
    Rq(PathOf(AddrShort), <<>>, <<>>, <<>>, HostName),         \* /about
    QueryRq(AddrShort),                                        \* /?ca=about
    Rq(<<"/">>, <<AddrShort>>, <<AddrUpper>>, <<>>, HostName), \* /?ca=about&token=A
    NoRq,                                                      \* /
    Rq(<<"/", "x", ".", "p", "n", "g">>, <<AddrUpper>>, <<>>, <<>>, HostName) }  \* /x.png?ca=A

\* the server after start-up, with upstream answering AddrUpper from `pool` and
\* knowing no pair of the addresses of `others`
InitRender(pool, others) ==
  /\ sharp = TRUE
  /\ now = 0
  /\ upstream \in {f \in [{AddrUpper} \cup others -> pool \cup {Doc(TRUE, <<>>)}] :
                     \A a \in others : f[a] = Doc(TRUE, <<>>)}
  /\ tokenCache = [k \in {toLowerCase(a) : a \in {AddrUpper} \cup others} |-> NoEntry]
  /\ ogCache = [f \in {safeName(AddrUpper)} |-> NoFile]
  /\ req = [r \in Reqs |-> Idle]
  /\ resp = Idle
  /\ BpIdle

InitPage == InitRender(PagePool, {AddrShort})

NextPage ==
  \/ \E r \in OneReq, rq \in PageRqs : PageRequest(r, rq)
  \/ \E r \in OneReq : TokenFetched(r)
  \/ \E r \in OneReq, kind \in FailKinds : TokenFailed(r, kind)
  \/ Tick
  \/ \E d \in PagePool : UpstreamChange(AddrUpper, d)

SpecPage == InitPage /\ [][NextPage]_vars

(***************************************************************************)
(* The page renderer and the image route on one address whose token, image *)
(* URL, request URL or Host header carry markup characters or the text of  *)
(* a placeholder                                                           *)
(***************************************************************************)
\* a token named <>&"' whose image URL holds a double quote
MarkupPair ==
  [Pair(2, <<7>>) EXCEPT
     !.baseToken = <<Token(<<"<", ">", "&", "\"", "'">>, <<"T", "K">>)>>,
     !.imageUrl = <<"i", "\"", "x">>]
\* a token named like a placeholder
KeyPair ==
  [Pair(4, <<7>>) EXCEPT
     !.baseToken = <<Token(<<"%", "%", "F", "A", "V", "I", "C", "O", "N", "%", "%">>, <<"T", "K">>)>>]

MarkupPool == {Doc(TRUE, <<MarkupPair>>), Doc(TRUE, <<KeyPair>>)}

\* a host header that holds a double quote
MarkupHost == <<"h", "\"", "i", "o">>

MarkupRqs ==
  { QueryRq(AddrUpper),
    Rq(<<"/">>, <<AddrUpper>>, <<>>, <<"x", "=", "\"", "<">>, HostName),
    Rq(<<"/">>, <<AddrUpper>>, <<>>, <<"%", "%", "F", "A", "V", "I", "C", "O", "N", "%", "%">>, HostName),
    Rq(<<"/">>, <<AddrUpper>>, <<>>, <<>>, MarkupHost) }

InitMarkup == InitRender(MarkupPool, {})

NextMarkup ==
  \/ \E r \in OneReq, rq \in MarkupRqs : PageRequest(r, rq)
  \/ \E r \in OneReq, a \in DOMAIN upstream : StartOg(r, a)
  \/ \E r \in OneReq : TokenFetched(r)
  \/ \E r \in OneReq, kind \in FailKinds : TokenFailed(r, kind)
  \/ \E r \in OneReq : RasterDone(r)
  \/ \E r \in OneReq : RasterFailed(r)
  \/ \E r \in OneReq : IconFetched(r)
  \/ \E r \in OneReq : IconNotOk(r)
  \/ \E r \in OneReq, kind \in FailKinds : IconFailed(r, kind)
  \/ \E r \in OneReq : IconStageDone(r)
  \/ \E r \in OneReq : IconStageFailed(r)
  \/ Tick
  \/ \E a \in DOMAIN upstream, d \in MarkupPool : UpstreamChange(a, d)

SpecMarkup == InitMarkup /\ [][NextMarkup]_vars

(***************************************************************************)
(* The pair selector alone: bestPair called again and again on a document  *)
(***************************************************************************)
InitBestPair ==
  /\ bpOrig \in Docs
  /\ bpData = bpOrig
  /\ bpRet = NoPair
  /\ bpCalls = 0
  /\ call = NoCall
  /\ now = 0
  /\ sharp = TRUE
  /\ upstream = <<>>
  /\ tokenCache = <<>>
  /\ ogCache = <<>>
  /\ req = [r \in Reqs |-> Idle]
  /\ resp = Idle

CallBestPair ==
  /\ bpCalls < MaxCalls
  /\ bpRet' = bestPair(bpData)
  /\ bpData' = bestPairData(bpData)
  /\ bpCalls' = bpCalls + 1
  /\ UNCHANGED <<bpOrig, call, now, sharp, upstream, tokenCache, ogCache, req, resp>>

NextBestPair == CallBestPair

SpecBestPair == InitBestPair /\ [][NextBestPair]_vars

(***************************************************************************)
(* The helper functions alone, each called on arguments of a bounded set   *)
(***************************************************************************)
\* the characters of the addresses tried
NameAlphabet == {"a", "Z", "9", "-", "_", ".", "/", " ", "%"}
Strings(S, n) == UNION {[1..m -> S] : m \in 0..n}
\* addresses around the length limit of a file name, with an unsafe character
\* at the start, at the limit, or nowhere
LongNames ==
  { [i \in 1..n |-> IF i = b THEN "/" ELSE "a"] :
      n \in (SAFE_NAME_MAX - 1)..(SAFE_NAME_MAX + 1),
      b \in {0, 1, SAFE_NAME_MAX} }
NameArgs == Strings(NameAlphabet, MaxNameLen) \cup LongNames

InitFn ==
  /\ BpIdle
  /\ now = 0
  /\ sharp = TRUE
  /\ upstream = <<>>
  /\ tokenCache = <<>>
  /\ ogCache = <<>>
  /\ req = [r \in Reqs |-> Idle]
  /\ resp = Idle

Returns(c) ==
  /\ call' = c
  /\ UNCHANGED <<now, sharp, upstream, tokenCache, ogCache, req, resp,
                 bpOrig, bpData, bpRet, bpCalls>>

CallSafeName(ca) == Returns(Call("safeName", ca, safeName(ca)))

\* amounts on both sides of every suffix threshold of fmtBig
BigArgs ==
  {0, 1, 42, 999, 1000, 1500, 25300, 999999, 1000000, 1500000, 2340000,
   999999999, 1000000000, 1500000000, 2000000000}
CallFmtBig(n) == Returns(Call("fmtBig", n, fmtBig(n)))

\* prices below a cent with z zeros after the point, z up to MaxZeros, followed
\* by 1234 or by 999999
Zeros(z) == [i \in 1..z |-> 0]
SmallPrices ==
  UNION { {Num(0, Zeros(z) \o <<1, 2, 3, 4>>), Str(0, Zeros(z) \o <<1, 2, 3, 4>>),
           Num(0, Zeros(z) \o <<9, 9, 9, 9, 9, 9>>)} : z \in 2..MaxZeros }
\* prices from a cent on, on both sides of 1 and of 1000, and the zeros
OtherPrices ==
  { Num(0, <<>>), Str(0, <<>>), NotANumber,
    Num(0, <<0, 1>>), Num(0, <<0, 1, 2, 3, 4, 6>>), Num(0, <<5>>), Str(0, <<2, 5>>),
    Num(0, <<9, 9, 9, 9, 9>>),
    Num(1, <<>>), Num(12, <<3, 4, 5, 6>>), Str(999, <<5>>), Num(999, <<9, 9, 9>>),
    Num(1000, <<>>), Num(1234, <<5>>), Str(1234567, <<8, 9, 1>>), Num(99999, <<9, 9, 9>>) }
PriceArgs == SmallPrices \cup OtherPrices
CallFmtPrice(p) == Returns(Call("fmtPrice", p, fmtPrice(p)))

\* the first draw in every hundredth, the second at both ends and in the middle
VoteDraws == {<<k1, k2>> : k1 \in 0..99, k2 \in {0, 1, 50, 98, 99}}
CallVotePanel(k) == Returns(Call("votePanel", k, VotePanel(k)))

\* tokens whose name and symbol are absent, short, at the limit of the
\* composer, and beyond it
Letters(c, n) == [i \in 1..n |-> c]
NameLens == {0, 3, 20, 21, 30}
SymTexts ==
  {<<>>, <<"t", "k">>, <<"T", "K">>} \cup {Letters("s", n) : n \in {10, 11, 15}}
LongTokens == {Token(Letters("n", n), sym) : n \in NameLens, sym \in SymTexts}
\* pairs with each of the five amounts present or absent
AmountPairs ==
  { [Pair(1, liq) EXCEPT !.priceUsd = price, !.fdv = fdv, !.marketCap = cap,
                         !.volume = vol] :
      liq \in {<<>>, <<7>>}, price \in {<<>>, <<Str(1, <<5>>)>>},
      fdv \in {0, 1500}, cap \in {0, 2000}, vol \in {<<>>, <<300>>} }
ScenePairs ==
  AmountPairs \cup {[Pair(1, <<7>>) EXCEPT !.baseToken = <<t>>] : t \in LongTokens}
CallSceneTexts(pair) == Returns(Call("sceneTexts", pair, SceneTexts(pair)))
CallPageDesc(pair) == Returns(Call("pageDesc", pair, PageDesc(pair)))

NextFn ==
  \/ \E ca \in NameArgs : CallSafeName(ca)
  \/ \E n \in BigArgs : CallFmtBig(n)
  \/ \E p \in PriceArgs : CallFmtPrice(p)
  \/ \E k \in VoteDraws : CallVotePanel(k)
  \/ \E pair \in ScenePairs : CallSceneTexts(pair)
  \/ \E pair \in AmountPairs : CallPageDesc(pair)

SpecFn == InitFn /\ [][NextFn]_vars

(***************************************************************************)
(* Properties                                                              *)
(***************************************************************************)
KeyEntry(cache, a) == cache[toLowerCase(a)]

\* slot r was suspended and this step sent its response
Answered(r) == req[r].pc # "idle" /\ req'[r].pc = "idle"

\* slot r was waiting for the market data and goes on in q2 = its next state
AfterToken(r) == IF req'[r].pc = "idle" THEN resp' ELSE req'[r]
TokenStored(r) ==
  /\ req[r].pc = "awaitToken"
  /\ req'[r] # req[r]
  /\ AfterToken(r).err = "none"

C2_MissFetchesAndOverwrites ==
  [][ /\ (resp'.pc = "done" /\ resp'.hit) =>
           LET e == KeyEntry(tokenCache, resp'.ca)
           IN  e.present /\ now - e.ts < TOKEN_TTL
      /\ \A r \in Reqs :
           (req[r].pc = "idle" /\ req'[r].pc = "awaitToken") => req'[r].upCalls = 1
      /\ \A r \in Reqs :
           TokenStored(r) =>
             LET e == KeyEntry(tokenCache', req[r].ca)
                 q2 == AfterToken(r)
             IN  /\ e.present
                 /\ e.fetched = upstream[req[r].ca]
                 /\ e.ts = req[r].now
                 /\ q2.upCalls = 1 /\ ~q2.hit
                 /\ q2.route = "api" => q2.body.pairs = upstream[req[r].ca].pairs
                 /\ q2.route = "page" => q2.body.pair = bestPair(upstream[req[r].ca])
    ]_vars

\* an entry of age exactly TTL was replaced: the entry written at TTL replaced one
C2_Witness ==
  /\ resp.pc = "done" /\ ~resp.hit /\ resp.err = "none" /\ resp.upCalls = 1
  /\ now = TOKEN_TTL
  /\ KeyEntry(tokenCache, resp.ca).ts = TOKEN_TTL
  /\ KeyEntry(tokenCache, resp.ca).prev # <<>>

\* C3: when the upstream call fails, the caller gets the error (the API proxy
\* answers 502, the page falls back to its defaults), the token cache is as it was,
\* and no document of the cache, however old, is in the response.
C3_FailureLeavesCache ==
  [][ \A r \in Reqs :
        (req[r].pc = "awaitToken" /\ Answered(r) /\ resp'.err # "none") =>
          /\ tokenCache' = tokenCache
          /\ ~resp'.hit
          /\ resp'.body.pairs = <<>>
          /\ resp'.body.pair = NoPair
          /\ resp'.route = "api" => resp'.status = 502 /\ resp'.body.kind = "error"
    ]_vars

\* the call failed while the key still held an expired entry with pairs
C3_Witness ==
  /\ resp.pc = "done" /\ resp.err = "badbody" /\ resp.route = "api" /\ resp.status = 502
  /\ KeyEntry(tokenCache, resp.ca).present
  /\ KeyEntry(tokenCache, resp.ca).fetched.pairs # <<>>
  /\ now - KeyEntry(tokenCache, resp.ca).ts >= TOKEN_TTL

\* C4: a document held in the token cache is never changed: its pairs stay in
\* the order upstream delivered them.
C4_CachedDocImmutable ==
  \A k \in DOMAIN tokenCache : tokenCache[k].data = tokenCache[k].fetched

\* the index at which pair p stands in the document as fetched
MaxLiq(pairs) == CHOOSE m \in {LiqUsd(pairs[i]) : i \in DOMAIN pairs} :
                   \A i \in DOMAIN pairs : LiqUsd(pairs[i]) <= m

\* C5: bestPair returns none for a document without pairs; else it returns a
\* pair of maximal liquidity (absent counted as 0), the earliest such pair in
\* the order the document was fetched, on the first call and on every later one.
C5_BestPairMaxEarliest ==
  bpCalls > 0 =>
    IF ~bpOrig.hasPairs \/ Len(bpOrig.pairs) = 0
      THEN bpRet = NoPair
      ELSE LET ps == bpOrig.pairs
           IN  /\ bpRet.id \in DOMAIN ps
               /\ bpRet = ps[bpRet.id]
               /\ LiqUsd(bpRet) = MaxLiq(ps)
               /\ \A i \in DOMAIN ps : i < bpRet.id => LiqUsd(ps[i]) < MaxLiq(ps)

\* a second call on a document whose maximum is shared by its second and third
\* pair, the one without liquidity standing first
C5_Witness ==
  /\ bpCalls = 2
  /\ Len(bpOrig.pairs) = 3
  /\ bpOrig.pairs[1].liquidity = <<>>
  /\ LiqUsd(bpOrig.pairs[2]) = 7 /\ LiqUsd(bpOrig.pairs[3]) = 7
  /\ bpRet.id = 2

\* C6: concurrent requests on one key are not serialised: a request that misses
\* issues its own upstream call whatever else is in flight, and every successful
\* call writes the slot, whatever the slot holds, so the slot holds the document
\* of the response stored last.
C6_LastWriterWins ==
  [][ /\ \A r \in Reqs :
           (req[r].pc = "idle" /\ req'[r].pc # "idle") =>
             req'[r].pc = "awaitToken" /\ req'[r].upCalls = 1
      /\ \A r \in Reqs :
           TokenStored(r) =>
             LET e == KeyEntry(tokenCache', req[r].ca)
                 old == KeyEntry(tokenCache, req[r].ca)
             IN  /\ e.url = req[r].ca
                 /\ e.fetched = upstream[req[r].ca]
                 /\ e.ts = req[r].now
                 /\ e.prev = IF old.present THEN <<old.fetched>> ELSE <<>>
    ]_vars

\* both requests missed at time 0 and both wrote: the second write replaced the
\* first while it was still fresh
C6_Witness ==
  /\ now = 0
  /\ \E k \in DOMAIN tokenCache : tokenCache[k].present /\ tokenCache[k].prev # <<>>
  /\ resp.pc = "done" /\ ~resp.hit /\ resp.upCalls = 1

\* the image of a composition, the vote panel aside
SansVotes(img) == [img EXCEPT !.voteCount = 0, !.voteTotal = 0]

C8_NoRetry ==
  /\ resp.upCalls <= 1 /\ resp.iconCalls <= 1
  /\ \A r \in DOMAIN req : req[r].upCalls <= 1 /\ req[r].iconCalls <= 1
  /\ resp.err \in FailKinds => resp.upCalls = 1
  /\ resp.iconErr # "none" => resp.iconCalls = 1

\* an image request whose market-data call succeeded and whose icon fetch timed
\* out was answered after one call of each
C8_Witness ==
  /\ resp.pc = "done" /\ resp.route = "og" /\ resp.iconErr = "timeout"
  /\ resp.upCalls = 1 /\ resp.iconCalls = 1

\* C9: every outbound call (market data, trending, icon) has a timer armed, so
\* every request that was received is eventually answered, even if upstream
\* never answers.
C9_EveryRequestAnswered ==
  \A r \in OneReq : (req[r].pc # "idle") ~> (req[r].pc = "idle")

\* C10: whichever step of the icon sub-pipeline fails, the composer returns the
\* base raster as it was before the icon step, without an icon on it: the
\* request is answered 200 with that raster and that raster is what is stored
\* (the one other outcome is the handler failing to write the file).
C10_IconFailureKeepsBase ==
  [][ \A r \in OneReq :
        (Answered(r) /\ resp'.route = "og" /\ resp'.iconErr # "none") =>
          /\ req[r].img.fmt = "png" /\ ~req[r].img.icon
          /\ resp'.err \in {"none", "write"}
          /\ resp'.err = "none" =>
                /\ resp'.status = 200
                /\ resp'.body.kind = "png"
                /\ resp'.body.img = req[r].img
                /\ ogCache'[safeName(req[r].ca)].img = req[r].img
          /\ resp'.err = "write" => resp'.status = 500 /\ ogCache' = ogCache
    ]_vars

\* the last step of the pipeline, the final composite, failed
C10_Witness ==
  /\ resp.pc = "done" /\ resp.route = "og" /\ resp.iconErr = "awaitComposite"
  /\ resp.status = 200 /\ ~resp.body.img.icon /\ resp.body.img.fmt = "png"

\* a request of `route` for address a arrives at the idle slot r in this step:
\* it is suspended at its first await, or answered at once
Arrived(r, route, a) ==
  /\ req[r].pc = "idle"
  /\ \/ req'[r].pc # "idle" /\ req'[r].route = route /\ req'[r].ca = a
     \/ resp'.pc = "done" /\ resp'.route = route /\ resp'.ca = a

\* C11: when the image store holds a file for the address key that is younger
\* than OG_TTL, GET /og/:ca.png answers at once with the stored image: no
\* composition, no market-data call, no icon fetch, both caches untouched.
C11_ImageHitServesStored ==
  [][ \A r \in OneReq, a \in DOMAIN upstream :
        (/\ Arrived(r, "og", a)
         /\ ogCache[safeName(a)].img # NoImg
         /\ now - ogCache[safeName(a)].mtimeMs < OG_TTL) =>
          /\ resp'.pc = "done" /\ req'[r].pc = "idle"
          /\ resp'.status = 200
          /\ resp'.body.kind = "png"
          /\ resp'.body.img = ogCache[safeName(a)].img
          /\ resp'.upCalls = 0 /\ resp'.iconCalls = 0
          /\ tokenCache' = tokenCache
          /\ ogCache' = ogCache
    ]_vars

\* a stored image was served one millisecond before it expired
C11_Witness ==
  /\ resp.pc = "done" /\ resp.route = "og" /\ resp.status = 200
  /\ resp.upCalls = 0 /\ resp.iconCalls = 0
  /\ resp.body.img = ogCache[safeName(resp.ca)].img
  /\ now - ogCache[safeName(resp.ca)].mtimeMs = OG_TTL - 1

\* the images the composer can return for address a and pair p: the base raster
\* of the scene for some draw of the vote values, with or without the icon
Composed(a, p) ==
  UNION {{Rasterize(Scene(a, p, k)), Overlay(Rasterize(Scene(a, p, k)))} :
           k \in RandDraws}

\* C12: when no image younger than OG_TTL is stored for the address, GET
\* /og/:ca.png goes on to the market data and, the address having a best pair,
\* to the composer; the image it then answers with was composed once for the
\* best pair of the document, is stored under the address key with the current
\* time (so that a request within OG_TTL is a hit), and is exactly what is sent.
C12_ImageMissComposesAndStores ==
  [][ \A r \in OneReq :
        /\ \A a \in DOMAIN upstream :
             (Arrived(r, "og", a) /\ ~IsFreshFile(ogCache[safeName(a)], now)) =>
               \/ req'[r].pc = "awaitToken"
               \/ req'[r].pc = "awaitRaster"
               \/ resp'.pc = "done" /\ resp'.status = 404
        /\ (Answered(r) /\ resp'.route = "og" /\ resp'.status = 200) =>
             LET f == ogCache'[safeName(resp'.ca)]
                 e == KeyEntry(tokenCache, resp'.ca)
             IN  /\ resp'.iconCalls = 1
                 /\ e.present /\ e.data.pairs # <<>>
                 /\ resp'.body.img \in Composed(resp'.ca, e.data.pairs[1])
                 /\ f.img = resp'.body.img
                 /\ f.mtimeMs = now
                 /\ IsFreshFile(f, now)
    ]_vars

\* C13: the image route maps outcomes to statuses: a malformed (too short)
\* address yields 400; a missing rasterizer 501; a document without a best pair
\* 404; a failed market-data call or a failed composition 500; and an answer
\* 200 carries an image, never one of these outcomes.
C13_ImageStatusMapping ==
  [][ \A r \in OneReq :
        /\ \A a \in DOMAIN upstream :
             (Arrived(r, "og", a) /\ Len(a) < OG_MIN_CA_LEN) =>
               resp'.pc = "done" /\ resp'.status = 400
        /\ \A a \in DOMAIN upstream :
             (/\ Arrived(r, "og", a) /\ Len(a) >= OG_MIN_CA_LEN
              /\ ~IsFreshFile(ogCache[safeName(a)], now) /\ ~sharp) =>
               resp'.pc = "done" /\ resp'.status = 501
        /\ (req'[r].pc = "awaitRaster" /\ req[r].pc # "awaitRaster") =>
             ~HasNoPairs(KeyEntry(tokenCache', req'[r].ca).data)
        /\ (resp'.pc = "done" /\ resp'.route = "og" /\ resp'.status = 404) =>
             HasNoPairs(KeyEntry(tokenCache', resp'.ca).data)
        /\ (Answered(r) /\ resp'.route = "og" /\ resp'.err \in FailKinds) =>
             resp'.status = 500
        /\ (Answered(r) /\ req[r].pc = "awaitRaster") => resp'.status = 500
        /\ (resp'.pc = "done" /\ resp'.route = "og") =>
             /\ resp'.status \in {200, 400, 404, 500, 501}
             /\ resp'.status = 200 <=>
                  (resp'.body.kind = "png" /\ resp'.body.img # NoImg)
             /\ resp'.status = 200 => resp'.err = "none"
    ]_vars

\* C14: without a rasterizer the image route does not fail: a request that
\* finds no stored image goes on to the market data, and for an address with a
\* best pair it is answered 200 with the vector scene itself (image/svg+xml).
C14_NoRasterizerServesScene ==
  [][ \A r \in OneReq :
        ~sharp =>
          /\ \A a \in DOMAIN upstream :
               (Arrived(r, "og", a) /\ ~IsFreshFile(ogCache[safeName(a)], now)) =>
                 \/ req'[r].pc = "awaitToken"
                 \/ resp'.pc = "done" /\ resp'.status \in {200, 404}
          /\ (resp'.pc = "done" /\ resp'.route = "og") => resp'.status # 501
          /\ (Answered(r) /\ resp'.route = "og" /\ resp'.status = 200) =>
               /\ resp'.body.kind = "svg"
               /\ resp'.body.img.fmt = "svg"
               /\ resp'.body.img.pair = KeyEntry(tokenCache', resp'.ca).data.pairs[1]
    ]_vars

\* the title and description placeholders carry the configured defaults
DefaultCopy(reps) ==
  /\ reps[PAGE_TITLE] = META_DEFAULTS[PAGE_TITLE]
  /\ reps[OG_TITLE] = META_DEFAULTS[OG_TITLE]
  /\ reps[OG_DESC] = META_DEFAULTS[OG_DESC]

\* C15: the page renderer always renders. Whenever a page request whose path is
\* not a static-file path is answered, the answer is the HTML page with status
\* 200, whatever upstream did; after a failed lookup (network error, timeout,
\* non-2xx, unparsable body), after a document without pairs and after a pair
\* without baseToken, the title and description placeholders carry the
\* configured defaults.
C15_PageAlwaysRenders ==
  (resp.pc = "done" /\ resp.route = "page" /\ ~IsStaticPath(resp.rq.path)) =>
    /\ resp.status = 200
    /\ resp.body.kind = "html"
    /\ resp.err \in FailKinds => DefaultCopy(RepsSent(resp))
    /\ (resp.upCalls = 1 /\ resp.err = "none"
          /\ bestPair(upstream[resp.ca]) = NoPair) => DefaultCopy(RepsSent(resp))
    /\ (resp.body.pair = NoPair \/ resp.body.pair.baseToken = <<>>)
         => DefaultCopy(RepsSent(resp))

\* a page answered with the defaults after upstream delivered a pair without
\* baseToken
C15_Witness ==
  /\ resp.pc = "done" /\ resp.route = "page"
  /\ resp.upCalls = 1 /\ resp.err = "none"
  /\ resp.body.pair = BarePair
  /\ resp.status = 200
  /\ DefaultCopy(RepsSent(resp))

\* a path segment longer than 10 characters
HasLongSegment(path) ==
  \E i \in 1..Len(path), j \in 1..Len(path) :
    /\ j - i + 1 > MIN_CA_LEN
    /\ \A k \in i..j : path[k] # "/"

\* the request names no address: no query parameter and no path segment longer
\* than 10 characters, or a value that resolves but is no longer than 10
NoAddressNamed(rq) ==
  \/ rq.ca = <<>> /\ rq.token = <<>> /\ ~HasLongSegment(rq.path)
  \/ rq.ca # <<>> /\ rq.ca[1] # <<>> /\ Len(rq.ca[1]) <= MIN_CA_LEN
  \/ Len(ResolveCa(rq)) <= MIN_CA_LEN

\* C16: a page request that names no resolvable address (no ca/token parameter
\* and no path segment longer than 10 characters, or a resolved value of length
\* <= 10) is answered at once with the page: no upstream call is issued, both
\* caches stay as they are, and the title and description are the defaults.
C16_NoAddressNoLookup ==
  [][\A r \in OneReq, rq \in PageRqs :
       (PageRequest(r, rq) /\ ~IsStaticPath(rq.path) /\ NoAddressNamed(rq)) =>
         /\ req'[r].pc = "idle"
         /\ resp'.pc = "done" /\ resp'.status = 200 /\ resp'.body.kind = "html"
         /\ resp'.upCalls = 0
         /\ tokenCache' = tokenCache /\ ogCache' = ogCache
         /\ DefaultCopy(RepsSent(resp'))]_vars

\* the page answered for /?ca=about: a value that resolves but is too short
C16_Witness ==
  /\ resp.pc = "done" /\ resp.route = "page"
  /\ resp.rq = QueryRq(AddrShort)
  /\ resp.ca = AddrShort
  /\ resp.upCalls = 0
  /\ DefaultCopy(RepsSent(resp))

\* the address the handler of the page request rq works with after it arrived
\* in slot r
ResolvedNext(r) == IF req'[r].pc = "idle" THEN resp'.ca ELSE req'[r].ca

\* the resolution as the sentence has it: a query parameter that is present,
\* else the last non-empty path segment when it is longer than 10 characters
ClaimedCa(rq) ==
  IF rq.ca # <<>> THEN rq.ca[1]
  ELSE IF rq.token # <<>> THEN rq.token[1]
  ELSE IF Len(LastSegment(rq.path)) > MIN_CA_LEN THEN LastSegment(rq.path)
  ELSE NoAddr

\* C17 as stated: a query parameter, when present, is the resolved address and
\* the path is ignored; without one the address is the last non-empty segment
\* of the path if that is longer than 10 characters; else no address resolves.
C17_ResolutionAsStated ==
  [][\A r \in OneReq, rq \in PageRqs :
       (PageRequest(r, rq) /\ ~IsStaticPath(rq.path)) =>
         ResolvedNext(r) = ClaimedCa(rq)]_vars

\* the resolution with a non-empty ca parameter first, a non-empty token
\* parameter second, and the path only when it is /<segment> or /<segment>/
\* with a segment of more than 10 characters
AmendedCa(rq) ==
  IF rq.ca # <<>> /\ rq.ca[1] # <<>> THEN rq.ca[1]
  ELSE IF rq.token # <<>> /\ rq.token[1] # <<>> THEN rq.token[1]
  ELSE IF \E seg \in {LastSegment(rq.path)} :
            /\ Len(seg) > MIN_CA_LEN
            /\ rq.path \in {<<"/">> \o seg, <<"/">> \o seg \o <<"/">>}
    THEN LastSegment(rq.path)
  ELSE NoAddr

\* C17 (amended): a non-empty ca parameter, else a non-empty token parameter,
\* is the resolved address and the path is ignored; only when neither is given
\* with a value is the address taken from the path, and then only if the path
\* is a single segment (after the leading slash, with at most one trailing
\* slash) longer than 10 characters; in every other case no address resolves.
\* The lookup is issued exactly for a resolved address longer than 10.
C17_Resolution ==
  [][\A r \in OneReq, rq \in PageRqs :
       (PageRequest(r, rq) /\ ~IsStaticPath(rq.path)) =>
         /\ ResolvedNext(r) = AmendedCa(rq)
         /\ (req'[r].pc = "awaitToken" \/ resp'.hit)
              <=> Len(AmendedCa(rq)) > MIN_CA_LEN]_vars

\* the lookup issued for /<address>/ : the address came from the path
C17_Witness ==
  /\ req["r1"].pc = "awaitToken" /\ req["r1"].route = "page"
  /\ req["r1"].rq = Rq(PathOf(AddrUpper) \o <<"/">>, <<>>, <<>>, <<>>, HostName)
  /\ req["r1"].ca = AddrUpper

\* the entities escHtml and escXml produce
Entities ==
  { <<"&", "a", "m", "p", ";">>, <<"&", "l", "t", ";">>,
    <<"&", "g", "t", ";">>,
    <<"&", "q", "u", "o", "t", ";">>,
    <<"&", "a", "p", "o", "s", ";">> }

\* no character of `raw` occurs in s, and every & of s begins an entity
IsEscaped(s, raw) ==
  \A i \in 1..Len(s) :
    /\ s[i] \notin raw
    /\ s[i] = "&" => \E e \in Entities : Matches(s, i, e)

\* C18: every string that comes from the request or from upstream is
\* entity-escaped before it is embedded in markup. In the page that is each of
\* the six placeholder values (title, description, image URL, page URL, favicon
\* URL): none holds a raw double quote, < or >, and every & begins an entity.
\* In the scene handed to the rasterizer it is every text built from the pair.
C18_EveryValueEscaped ==
  /\ (resp.pc = "done" /\ resp.route = "page" /\ resp.status = 200) =>
       \A k \in DOMAIN MetaKeys : IsEscaped(RepsSent(resp)[k], {"\"", "<", ">"})
  /\ \A r \in OneReq :
       req[r].pc = "awaitRaster" =>
         \A i \in DOMAIN SceneTexts(req[r].img.pair) :
           IsEscaped(SceneTexts(req[r].img.pair)[i], {"\"", "<", ">"})

\* C19: a token name that holds < > & " ' is rendered with all five as
\* entities: neither the title and description values of the page nor the name
\* text of the scene hold a raw one of the five.
C19_NameFullyEscaped ==
  /\ (resp.pc = "done" /\ resp.route = "page" /\ resp.body.pair = MarkupPair) =>
       \A k \in {PAGE_TITLE, OG_TITLE, OG_DESC} :
         IsEscaped(RepsSent(resp)[k], {"\"", "<", ">", "'"})
  /\ \A r \in OneReq :
       (req[r].pc = "awaitRaster" /\ req[r].img.pair = MarkupPair) =>
         IsEscaped(SceneTexts(MarkupPair)[OG_NAME_TEXT], {"\"", "<", ">", "'"})

\* the template with every occurrence of a placeholder replaced by its value,
\* in one pass from left to right: substituted text is not looked at again
RECURSIVE SubstituteOnceFrom(_, _, _)
SubstituteOnceFrom(s, reps, i) ==
  LET hits == {j \in i..Len(s) : \E k \in DOMAIN MetaKeys : Matches(s, j, MetaKeys[k])}
  IN  IF hits = {} THEN SubSeq(s, i, Len(s))
      ELSE LET j == CHOOSE h \in hits : \A g \in hits : h <= g
               k == CHOOSE m \in DOMAIN MetaKeys : Matches(s, j, MetaKeys[m])
           IN  SubSeq(s, i, j - 1) \o reps[k]
                 \o SubstituteOnceFrom(s, reps, j + Len(MetaKeys[k]))
SubstituteOnce(s, reps) == SubstituteOnceFrom(s, reps, 1)

\* C20: the page sent is the template with every occurrence of each
\* placeholder replaced by that placeholder's value, and nothing else: text
\* that came in through a value is not replaced by a later substitution.
C20_OneToOneSubstitution ==
  (resp.pc = "done" /\ resp.route = "page" /\ resp.status = 200) =>
    HtmlSent(resp) = SubstituteOnce(HTML_TEMPLATE, RepsSent(resp))

\* 502 with a JSON body that holds an error field
Is502(q) == q.pc = "done" /\ q.status = 502 /\ q.body.kind = "error"
\* 200 with a JSON document whose pairs are `pairs`
IsJson(q, pairs) ==
  q.pc = "done" /\ q.status = 200 /\ q.body.kind = "json" /\ q.body.pairs = pairs

\* C21: GET /api/token/:address and GET /api/trending answer every failure
\* of their upstream call (network error, timeout, non-2xx, unparsable body) with
\* 502 and a JSON error body, and answer with the upstream JSON otherwise: the
\* token route with the document upstream delivered for the address, on a fetch
\* and on a cache hit alike.
C21_ApiProxyMapping ==
  [][\A r \in OneReq :
       /\ \A kind \in FailKinds :
            (TokenFailed(r, kind) /\ req[r].route = "api") => Is502(resp')
       /\ \A kind \in FailKinds : TrendingFailed(r, kind) => Is502(resp')
       /\ TrendingFetched(r) => IsJson(resp', <<>>)
       /\ (TokenFetched(r) /\ req[r].route = "api")
            => IsJson(resp', upstream[req[r].ca].pairs)
       /\ \A a \in SameKeyAddrs :
            (StartApi(r, a) /\ resp'.pc = "done")
              => IsJson(resp', tokenCache[toLowerCase(a)].fetched.pairs)]_vars

\* extensions of static files
StaticExts ==
  { <<".", "j", "s">>, <<".", "c", "s", "s">>, <<".", "p", "n", "g">>,
    <<".", "j", "p", "g">>, <<".", "s", "v", "g">>, <<".", "i", "c", "o">>,
    <<".", "j", "s", "o", "n">> }
EndsWith(s, e) == Len(s) >= Len(e) /\ SubSeq(s, Len(s) - Len(e) + 1, Len(s)) = e

\* C22: a catch-all request whose path ends in a static-file extension is
\* answered 404 in the same step with a plain text body: no page is rendered,
\* no upstream call is issued and neither cache changes, whatever the query
\* string names.
C22_StaticPathNotFound ==
  [][\A r \in OneReq :
       /\ (req[r].pc = "idle" /\ req'[r].pc # "idle" /\ req'[r].route = "page")
            => ~\E e \in StaticExts : EndsWith(req'[r].rq.path, e)
       /\ (req[r].pc = "idle" /\ resp'.pc = "done" /\ resp'.route = "page"
              /\ \E e \in StaticExts : EndsWith(resp'.rq.path, e)) =>
            /\ resp'.status = 404 /\ resp'.body.kind = "text"
            /\ resp'.upCalls = 0 /\ ~resp'.hit
            /\ tokenCache' = tokenCache /\ ogCache' = ogCache]_vars

\* /x.png?ca=<address> answered 404 although the query names an address
C22_Witness ==
  /\ resp.pc = "done" /\ resp.route = "page"
  /\ resp.rq.path = <<"/", "x", ".", "p", "n", "g">>
  /\ resp.rq.ca = <<AddrUpper>>
  /\ resp.status = 404 /\ resp.upCalls = 0

\* two spellings of one address: equal up to the case of the letters
SameModuloCase(a, b) ==
  /\ a # b
  /\ Len(a) = Len(b)
  /\ \A i \in 1..Len(a) : LowerChar(a[i]) = LowerChar(b[i])

\* C23: the key of the token cache is case-insensitive. When a request names
\* an address and the cache holds an entry younger than TOKEN_TTL that was
\* fetched under another spelling of the same address, the request is served
\* from that entry: no upstream call is issued, the document returned is the
\* stored one, and the cache is not written.
C23_KeyIgnoresCase ==
  [][\A r \in OneReq, a \in SameKeyAddrs :
       ((Arrived(r, "api", a) \/ Arrived(r, "page", a))
          /\ \E k \in DOMAIN tokenCache :
               /\ tokenCache[k].present
               /\ SameModuloCase(tokenCache[k].url, a)
               /\ now - tokenCache[k].ts < TOKEN_TTL) =>
         /\ req'[r].pc = "idle"
         /\ resp'.pc = "done" /\ resp'.status = 200
         /\ resp'.hit /\ resp'.upCalls = 0
         /\ \A k \in DOMAIN tokenCache :
              /\ tokenCache'[k].ts = tokenCache[k].ts
              /\ tokenCache'[k].fetched = tokenCache[k].fetched
              /\ tokenCache'[k].url = tokenCache[k].url
         /\ resp'.route = "api" =>
              \E k \in DOMAIN tokenCache :
                /\ SameModuloCase(tokenCache[k].url, a)
                /\ resp'.body.pairs = tokenCache[k].data.pairs]_vars

\* the API asked in upper case is answered from the entry fetched in lower case
C23_Witness ==
  /\ resp.pc = "done" /\ resp.route = "api" /\ resp.ca = AddrUpper
  /\ resp.hit /\ resp.upCalls = 0 /\ resp.status = 200
  /\ \E k \in DOMAIN tokenCache :
       tokenCache[k].present /\ tokenCache[k].url = AddrLower

\* C25: safeName(address) is made only of the characters a-z, A-Z, 0-9, dash
\* and underscore, is at most 60 characters long, and is the address itself
\* when the address already satisfies both conditions.
C25_SafeNameIsSafe ==
  call.fn = "safeName" =>
    LET ok == Range(LowerLetters) \cup Range(UpperLetters) \cup Range(DigitChars)
                \cup {"-", "_"}
    IN  /\ \A i \in 1..Len(call.ret) : call.ret[i] \in ok
        /\ Len(call.ret) <= 60
        /\ ((\A i \in 1..Len(call.arg) : call.arg[i] \in ok) /\ Len(call.arg) <= 60)
             => call.ret = call.arg

\* an address of 61 characters with a slash in front is cut and sanitized
C25_Witness ==
  /\ call.fn = "safeName"
  /\ Len(call.arg) = 61 /\ call.arg[1] = "/"
  /\ Len(call.ret) = 60 /\ call.ret[1] = "_"

\* the suffix fmtBig puts on n is B from 1e9, M from 1e6, K from 1e3, and none
\* below, where the amount is printed in whole dollars
SuffixAsClaimed(n, out) ==
  LET last == out[Len(out)]
  IN  /\ out[1] = "$"
      /\ (n >= 1000000000) => last = "B"
      /\ (n >= 1000000 /\ n < 1000000000) => last = "M"
      /\ (n >= 1000 /\ n < 1000000) => last = "K"
      /\ (n < 1000) => out = <<"$">> \o DigitsOf(n)

\* C26: fmtBig(0) is "$0" and fmtBig(1500000) is exactly "$1.5M"; the suffix is
\* B for n >= 1e9, M for 1e6 <= n < 1e9, K for 1e3 <= n < 1e6, and below 1e3 the
\* amount is printed without a suffix, in whole dollars.
C26_MagnitudeFormat ==
  call.fn = "fmtBig" =>
    /\ (call.arg = 0) => call.ret = <<"$", "0">>
    /\ (call.arg = 1500000) => call.ret = <<"$", "1", ".", "5", "M">>
    /\ SuffixAsClaimed(call.arg, call.ret)

\* the characters printed after the decimal point, and those before it
Decimals(out) ==
  LET dot == CHOOSE i \in 1..Len(out) : out[i] = "." IN SubSeq(out, dot + 1, Len(out))
IntPart(out) ==
  LET dot == CHOOSE i \in 1..Len(out) : out[i] = "." IN SubSeq(out, 2, dot - 1)
HasNonZeroDigit(out) == \E i \in 1..Len(out) : out[i] \in Range(DigitChars) \ {"0"}
\* a price p with 0 < p < 0.01 given to fmtPrice
SmallPriceCall ==
  /\ call.fn = "fmtPrice" /\ call.arg.kind # "text"
  /\ ~IsZero(call.arg) /\ ~AtLeastCent(call.arg)

\* C27 as stated: for 0 < p < 0.01 fmtPrice prints min(z + 4, 10) decimals, z
\* being the number of zeros that follow the decimal point of p, and the printed
\* string holds at least one non-zero digit for every such p.
C27_SmallPriceAsStated ==
  SmallPriceCall =>
    /\ Len(Decimals(call.ret)) = Min(LeadingZeros(call.arg.frac) + 4, 10)
    /\ HasNonZeroDigit(call.ret)

\* C27 amended: for 0 < p < 0.01 fmtPrice prints min(z + 4, 10) decimals, and
\* the printed string holds at least one non-zero digit for every such p that
\* is at least 1e-10 (z at most 9).
C27_SmallPrice ==
  SmallPriceCall =>
    /\ Len(Decimals(call.ret)) = Min(LeadingZeros(call.arg.frac) + 4, 10)
    /\ (LeadingZeros(call.arg.frac) <= 9) => HasNonZeroDigit(call.ret)

\* 0.0000000001234 (z = 9) is printed with 10 decimals, the last one being 1
C27_Witness ==
  /\ SmallPriceCall
  /\ LeadingZeros(call.arg.frac) = 9
  /\ call.ret = <<"$", "0", ".", "0", "0", "0", "0", "0", "0", "0", "0", "0", "1">>

\* C28: fmtPrice prints exactly 2 decimals with thousands grouping for
\* p >= 1000, exactly 2 decimals for 1 <= p < 1000 and exactly 4 decimals for
\* 0.01 <= p < 1; every printed value whose integer part has four or more
\* digits is comma-grouped.
C28_PriceDecimalsAndGrouping ==
  (call.fn = "fmtPrice" /\ call.arg.kind # "text" /\ AtLeastCent(call.arg)) =>
    LET p == call.arg
        int == IntPart(call.ret)
        digits == SelectSeq(int, LAMBDA c : c # ",")
    IN  /\ (p.int >= 1000) =>
             /\ Len(Decimals(call.ret)) = 2
             /\ int = Grouped(digits)
        /\ (p.int >= 1 /\ p.int < 1000) => Len(Decimals(call.ret)) = 2
        /\ (p.int = 0) => Len(Decimals(call.ret)) = 4
        /\ (Len(digits) >= 4) => \E i \in 1..Len(int) : int[i] = ","

\* what C29 says of the count, the percentage and the progress bar of a panel
PanelInRange(v) ==
  /\ v.voteCount >= 800 /\ v.voteCount < 3300
  /\ v.voteCount <= v.voteTotal
  /\ v.votePct >= 40 /\ v.votePct <= 92
  /\ v.barWidth <= 380 * 100

\* C29 as stated: the count is an integer with 800 <= count < 3300, the total
\* an integer with count between 40% and 92% of it (so count <= total), the
\* displayed percentage an integer in [40, 92], and the progress bar is never
\* wider than the full bar.
C29_VotePanelAsStated ==
  call.fn = "votePanel" =>
    /\ PanelInRange(call.ret)
    /\ 40 * call.ret.voteTotal <= 100 * call.ret.voteCount
    /\ 100 * call.ret.voteCount <= 92 * call.ret.voteTotal

\* C29 amended: as stated, but the count is at most 92% of the total and at
\* least 40% of the total less one (the total is rounded up to an integer).
C29_VotePanel ==
  call.fn = "votePanel" =>
    /\ PanelInRange(call.ret)
    /\ 40 * (call.ret.voteTotal - 1) <= 100 * call.ret.voteCount
    /\ 100 * call.ret.voteCount <= 92 * call.ret.voteTotal

\* a panel whose count is below 40% of its total and displayed as 40%
C29_Witness ==
  /\ call.fn = "votePanel"
  /\ 100 * call.ret.voteCount < 40 * call.ret.voteTotal
  /\ call.ret.votePct = 40

\* the pair of a composition has none of the five amounts
NoAmounts(pair) ==
  /\ pair.priceUsd = <<>> /\ pair.fdv = 0 /\ pair.marketCap = 0
  /\ pair.liquidity = <<>> /\ pair.volume = <<>>

\* C24: a pair whose amounts (usd price, fdv, market cap, liquidity.usd,
\* volume.h24) are absent in any combination makes neither the composition nor
\* the page values fail, and each absent amount is displayed as zero: "$0" for
\* the market cap, the liquidity and the volume, "$0.00" for the price.
C24_AbsentAmountsShowZero ==
  /\ (call.fn = "sceneTexts" /\ call.arg \in AmountPairs) =>
       /\ Len(call.ret) = 10
       /\ (call.arg.priceUsd = <<>>) => call.ret[OG_PRICE_TEXT] = <<"$", "0", ".", "0", "0">>
       /\ (call.arg.fdv = 0 /\ call.arg.marketCap = 0) => call.ret[OG_MCAP_TEXT] = <<"$", "0">>
       /\ (call.arg.liquidity = <<>>) => call.ret[OG_LIQ_TEXT] = <<"$", "0">>
       /\ (call.arg.volume = <<>>) => call.ret[OG_VOL_TEXT] = <<"$", "0">>
  /\ (call.fn = "pageDesc" /\ call.arg.fdv = 0 /\ call.arg.marketCap = 0) =>
       \E i \in 1..Len(call.ret) :
         Matches(call.ret, i, <<"M", "C", "a", "p", " ", "$", "0", " ">>)

\* the texts of a scene composed for a token of LongTokens
C30Call == call.fn = "sceneTexts" /\ call.arg.baseToken[1] \in LongTokens
EndsWithEllipsis(t) == Len(t) > 0 /\ t[Len(t)] = "ELLIPSIS"

\* C30 as stated: the embedded name is never longer than 20 characters and the
\* embedded symbol never longer than 10; a name or symbol within the limit is
\* embedded unchanged, and every shortened one ends with the ellipsis marker.
C30_TruncationAsStated ==
  C30Call =>
    LET token == call.arg.baseToken[1]
        name == call.ret[OG_NAME_TEXT]
        sym == call.ret[OG_SYM_TEXT]
    IN  /\ Len(name) <= 20 /\ Len(sym) <= 10
        /\ (Len(TokenName(token)) <= 20) => name = TokenName(token)
        /\ (Len(TokenSym(token)) <= 10) => sym = TokenSym(token)
        /\ (Len(TokenName(token)) > 20) => EndsWithEllipsis(name)
        /\ (Len(TokenSym(token)) > 10) => EndsWithEllipsis(sym)

\* C30 amended: as stated, but a symbol within the limit is embedded in upper
\* case and otherwise unchanged.
C30_Truncation ==
  C30Call =>
    LET token == call.arg.baseToken[1]
        name == call.ret[OG_NAME_TEXT]
        sym == call.ret[OG_SYM_TEXT]
    IN  /\ Len(name) <= 20 /\ Len(sym) <= 10
        /\ (Len(TokenName(token)) <= 20) => name = TokenName(token)
        /\ (Len(TokenSym(token)) <= 10) =>
             /\ Len(sym) = Len(TokenSym(token))
             /\ \A i \in 1..Len(sym) :
                  sym[i] = (IF TokenSym(token)[i] \in Range(LowerLetters)
                              THEN UpperLetters[CHOOSE j \in 1..26 : LowerLetters[j] = TokenSym(token)[i]]
                              ELSE TokenSym(token)[i])
        /\ (Len(TokenName(token)) > 20) => EndsWithEllipsis(name)
        /\ (Len(TokenSym(token)) > 10) => EndsWithEllipsis(sym)

\* a name of 21 characters and a symbol of 11 are both cut; a name of 20 and a
\* symbol of 10 are not
C30_Witness ==
  /\ C30Call
  /\ Len(call.arg.baseToken[1].name) = 21 /\ Len(call.arg.baseToken[1].symbol) = 11
  /\ Len(call.ret[OG_NAME_TEXT]) = 19 /\ EndsWithEllipsis(call.ret[OG_NAME_TEXT])
  /\ Len(call.ret[OG_SYM_TEXT]) = 9 /\ EndsWithEllipsis(call.ret[OG_SYM_TEXT])

\* C31: the timestamp stored with a fetched document is the clock value at the
\* moment the entry is written, so the entry has age 0 when it is stored and is
\* served for a full TTL after the store, however long the upstream call took.
C31_TimestampAtStore ==
  [][ \A r \in OneReq :
        TokenStored(r) =>
          LET e == KeyEntry(tokenCache', req[r].ca)
          IN  /\ e.ts = now'
              /\ IsFresh(e, now')
              /\ \A t \in ClockVals : (t - now' < TOKEN_TTL /\ t >= now') => IsFresh(e, t)
    ]_vars

\* C32: for every key of the token cache, across any interleaving of concurrent
\* fetches, the stored timestamp never decreases from one write to the next, and
\* the document a write stores is the one of the upstream response that arrived
\* last (a document of a later response is never replaced by one of an earlier
\* response).
C32_WritesMonotone ==
  [][ \A r \in Reqs :
        TokenStored(r) =>
          LET e == KeyEntry(tokenCache', req[r].ca)
              old == KeyEntry(tokenCache, req[r].ca)
          IN  /\ e.fetched = upstream[req[r].ca]
              /\ old.present => e.ts >= old.ts
    ]_vars

\* C33: every document fetchTokenData(address) returns, on a hit as well as on
\* a miss, is a document that upstream returned for exactly the requested
\* address string.
C33_DocumentOfRequestedAddress ==
  [][ \A r \in OneReq :
        /\ (req[r].pc = "idle" /\ AfterToken(r).hit) =>
             KeyEntry(tokenCache, AfterToken(r).ca).url = AfterToken(r).ca
        /\ TokenStored(r) =>
             /\ KeyEntry(tokenCache', req[r].ca).url = req[r].ca
             /\ KeyEntry(tokenCache', req[r].ca).fetched = upstream[req[r].ca]
    ]_vars

\* C34: every image served from the image cache for a request /og/:ca.png was
\* composed for exactly that address: two distinct addresses never share a
\* cache key, so a hit never returns an image generated for another address.
C34_ImageOfRequestedAddress ==
  [][ /\ \A a, b \in DOMAIN upstream : a # b => safeName(a) # safeName(b)
      /\ \A r \in OneReq, a \in DOMAIN upstream :
           (/\ Arrived(r, "og", a)
            /\ resp'.pc = "done" /\ resp'.status = 200 /\ resp'.upCalls = 0) =>
             resp'.body.img.ca = a
    ]_vars

\* C38: the image store is written only after a composition succeeded: every
\* image-route request that ends in a non-success outcome (no pair, missing
\* rasterizer, failed market-data fetch, failed composition) leaves the image
\* store unchanged, and every file written holds the raster that the same step
\* sends with status 200.
C38_StoreOnlyOnSuccess ==
  [][ /\ (resp'.pc = "done" /\ resp'.route = "og" /\ resp'.status # 200) =>
           ogCache' = ogCache
      /\ (ogCache' # ogCache) =>
           /\ resp'.pc = "done" /\ resp'.route = "og" /\ resp'.status = 200
           /\ resp'.body.img.fmt = "png"
           /\ ogCache'[safeName(resp'.ca)].img = resp'.body.img
           /\ \A f \in DOMAIN ogCache : f # safeName(resp'.ca) => ogCache'[f] = ogCache[f]
    ]_vars

\* the rasterizer threw after the market data was fetched, the request was
\* answered 500 and the store holds no file
C38_Witness ==
  /\ resp.pc = "done" /\ resp.route = "og" /\ resp.status = 500
  /\ resp.upCalls = 1 /\ resp.err = "none"
  /\ ogCache[safeName(resp.ca)] = NoFile

\* what C37 says of the entries of a state: the key is the lower-cased address
\* of the request the document was fetched for, the document is the one that
\* response delivered (its pairs as delivered, or as a reader's sort left
\* them), and the timestamp is not later than the clock
EntriesWellFormed ==
  \A k \in DOMAIN tokenCache :
    LET e == tokenCache[k]
    IN  e.present =>
          /\ k = toLowerCase(k)
          /\ toLowerCase(e.url) = k
          /\ e.fetched \in UpPool
          /\ e.data \in {e.fetched, bestPairData(e.fetched)}
          /\ e.ts <= now

\* C37: in every reachable state each token-cache entry has a lower-cased key, a
\* document that came from a successful upstream response to a request whose
\* lower-cased address is that key, and a timestamp not later than the current
\* time; entries are only added or overwritten, and only by a successful
\* upstream response, never removed: the set of keys never shrinks.
C37_EntriesWellFormed ==
  /\ []EntriesWellFormed
  /\ [][ \A k \in DOMAIN tokenCache :
           /\ tokenCache[k].present => tokenCache'[k].present
           /\ (<<tokenCache'[k].fetched, tokenCache'[k].url, tokenCache'[k].ts>>
                 # <<tokenCache[k].fetched, tokenCache[k].url, tokenCache[k].ts>>) =>
                \E r \in Reqs :
                  /\ TokenStored(r)
                  /\ toLowerCase(req[r].ca) = k
                  /\ tokenCache'[k].url = req[r].ca
                  /\ tokenCache'[k].fetched = upstream[req[r].ca]
       ]_vars

\* an entry fetched for the upper-case spelling sits under the lower-case key,
\* expired, after a later call for the key failed
C37_Witness ==
  /\ KeyEntry(tokenCache, AddrUpper).present
  /\ KeyEntry(tokenCache, AddrUpper).url = AddrUpper
  /\ now - KeyEntry(tokenCache, AddrUpper).ts >= TOKEN_TTL
  /\ resp.pc = "done" /\ resp.err # "none"

\* C36: every handler (API proxy, image route, page renderer) sends exactly one
\* response per request on every path, the failure paths included: a request
\* that is still being handled has sent none, a handler never ends without
\* having sent one, and it never sends a second one.
C36_ExactlyOneResponse ==
  /\ [](/\ \A r \in OneReq : req[r].sent = 0
        /\ (resp.pc = "done") => resp.sent = 1)
  /\ [][ \A r \in OneReq :
           /\ Answered(r) =>
                /\ resp'.pc = "done" /\ resp'.sent = 1
                /\ resp'.route = req[r].route /\ resp'.ca = req[r].ca
           /\ (req[r].pc = "idle" /\ req'[r].pc = "idle" /\ resp'.pc = "done") =>
                resp'.sent = 1
       ]_vars

\* the image route answered a request whose icon step failed, once
C36_Witness ==
  /\ resp.pc = "done" /\ resp.route = "og" /\ resp.status = 200
  /\ resp.iconErr # "none" /\ resp.sent = 1

\* C35: freshness bound across the two caches: every image the image route
\* returns shows market data that upstream delivered no more than one TTL
\* (TOKEN_TTL, 5 minutes) before the response, also when the image was composed
\* from a token-cache hit and is later served from the image cache.
C35_ImageDataWithinOneTtl ==
  (resp.pc = "done" /\ resp.route = "og" /\ resp.status = 200) =>
     now - resp.dataAt <= TOKEN_TTL

====
